---- MODULE Spec2Model ----
(***************************************************************************)
(* Model of the request lifecycle of ZogHttpClient (src/src/zog-http.js):  *)
(* the interceptor chains, the retry / timeout / cancellation logic of     *)
(* request(), the abortControllers registry and the reactive global state. *)
(***************************************************************************)
EXTENDS Integers, Sequences, FiniteSets, TLC

(* ---- bounds of the model ---- *)
MaxReq == 2            \* request() calls issued in one behaviour
MaxRetries == 1        \* largest value of options.retries
MaxInterceptors == 1   \* longest interceptor list of the client
MaxChain == 2          \* longest request interceptor list of SpecChain
MaxAdds == 3           \* add calls per interceptor list in SpecRegistry
MaxParams == 2         \* most entries of a params object
MaxClients == 2        \* clients built in SpecClients
MaxBytes == 2          \* most bytes of a transfer, and largest announced total
MaxObjects == 2        \* headers objects alive at once
MaxHandlers == 2       \* handler functions given to the event bus
MaxEmits == 2          \* emit calls of one behaviour, nested ones included
MaxEntries == 2        \* functions one Set of the event bus has held
MaxSets == 2           \* Sets the event bus has made for the event

ReqIds == 1..MaxReq

(* ---- values that flow through the promise chains ---- *)
Undefined == [t |-> "undefined", name |-> "", status |-> 0, message |-> "", data |-> ""]

\* the value a recovering `rejected` handler returns
HandlerValue == [t |-> "value", name |-> "", status |-> 0, message |-> "", data |-> "handler"]

\* responseObj of executeRequest: { data, status, statusText, ... }
ResponseObj(status, statusText, data) ==
    [t |-> "response", name |-> "", status |-> status, message |-> statusText, data |-> data]

\* an Error that is not an HttpError: name and message only
JsError(name, message) ==
    [t |-> "error", name |-> name, status |-> 0, message |-> message, data |-> ""]

\* class HttpError: name 'HttpError', status, message
HttpError(message, status) ==
    [t |-> "error", name |-> "HttpError", status |-> status, message |-> message, data |-> ""]

(* ---- what the transport can answer to one fetch() ---- *)
Statuses == {200, 404, 503}
ContentTypes == {"application/json", "text/plain", "none"}

StatusText(s) == CASE s = 200 -> "OK"
                   [] s = 404 -> "Not Found"
                   [] s = 503 -> "Service Unavailable"
                   [] OTHER -> ""

ResponseOk(status) == status >= 200 /\ status < 300

\* a response: status, statusText, content-type header, whether the body text
\* is JSON (a text/plain body is read as text whatever it holds) and the
\* `message` member of a JSON body ("" when it has none). The answers taken:
\* every status with its standard text and a body without message; the error
\* statuses with an application/json body { message: 'boom' }; and a 404
\* text answer whose statusText is empty, as over HTTP/2.
Responses ==
    {o \in [kind : {"response"}, status : Statuses, ctype : ContentTypes,
            jsonBody : BOOLEAN, message : {"", "boom"},
            statusText : {StatusText(s) : s \in Statuses} \cup {""}] :
        /\ o.ctype = "text/plain" => ~o.jsonBody
        /\ o.statusText \in {StatusText(o.status), ""}
        /\ o.message # "" => (o.jsonBody /\ o.ctype = "application/json"
                                /\ ~ResponseOk(o.status)
                                /\ o.statusText # "")
        /\ o.statusText = "" => (o.status = 404 /\ o.ctype = "text/plain")}
NetworkFailure == [kind |-> "network", status |-> 0, ctype |-> "none", jsonBody |-> FALSE,
                   message |-> "", statusText |-> ""]
TransferOutcomes == Responses \cup {NetworkFailure}

\* `a || b || c` on strings: the first that is not empty (lines 532, 768)
FirstNonEmpty(a, b, c) == IF a # "" THEN a ELSE IF b # "" THEN b ELSE c

(* ---- interceptor entries { fulfilled, rejected, id } ---- *)
\* behaviours of a `fulfilled` handler: absent, returns its argument,
\* throws a TypeError, throws a plain Error; "mark" is a request-side handler
\* that changes the config it is given (it leaves its id on it) and returns it;
\* "undefined" returns undefined; "methodGet" and "methodPost" return the config
\* with a method of their own
FulfilledKinds == {"none", "ok", "mark", "undefined", "throwTypeError", "throwError",
                   "methodGet", "methodPost"}
\* behaviours of a `rejected` handler: absent, returns a defined value,
\* returns undefined, rethrows the error it was given, throws an error of its own
RejectedKinds == {"none", "value", "undefined", "rethrow", "throw"}

\* the error a `rejected` handler of kind "throw" throws
HandlerError == JsError("Error", "handler error")

Entry(f, r, id) == [fulfilled |-> f, rejected |-> r, id |-> id]

\* the loop variable outside a pending handler call
NoEntry == Entry("none", "none", 0)

ThrownBy(f) == IF f = "throwTypeError" THEN JsError("TypeError", "interceptor type error")
               ELSE JsError("Error", "interceptor error")

Throws(f) == f \in {"throwTypeError", "throwError"}

VARIABLES
    interceptors,      \* this.interceptors: [request |-> Seq, response |-> Seq]
    abortControllers,  \* this.abortControllers: the registered request ids
    pendingRequests,   \* this.state.pendingRequests
    loading,           \* this.state.loading
    stateError,        \* this.state.error ("null" or a message)
    lastRequest,       \* this.state.lastRequest (<<>> for null, else <<url, method>>:
                       \* the URL buildURL returned and fetchOptions.method)
    nextId,            \* number of request() calls issued so far, plus one
    req,               \* per request() call: its position and locals
    owners,            \* history: which add call made each interceptor entry
    heap,              \* the headers objects, by reference
    clients,           \* the ZogHttpClient instances: their this.config
    tracker,           \* the state of one UploadTracker
    xfer,              \* one upload() or download(): its position and locals
    probe              \* arguments and result of a helper called on its own

vars == <<interceptors, abortControllers, pendingRequests, loading, stateError,
          lastRequest, nextId, req, owners, heap, clients, tracker, xfer, probe>>

\* what the steps of request(), cancelRequest() and cancelAll() never write
configVars == <<heap, clients>>
sideVars == <<owners, configVars, tracker, xfer, probe>>

\* what only request(), cancelRequest() and cancelAll() write
lifecycleVars == <<abortControllers, pendingRequests, loading, stateError,
                   lastRequest, nextId, req>>

clientState == <<pendingRequests, loading, stateError, lastRequest>>


(* ---- class UploadTracker: lines 70-149 (progress, loaded, total, status, error) ---- *)

IdleTracker == [progress |-> 0, loaded |-> 0, total |-> 0, status |-> "idle",
                error |-> "null"]

\* Math.round of the quotient num / den of two non-negative integers
Round(num, den) == (2 * num + den) \div (2 * den)

\* a start that leaves the status as it is
StartWithoutStatus(t, total) ==
    [t EXCEPT !.progress = 0, !.loaded = 0, !.total = total, !.error = "null"]

Start(t, total) ==
    [t EXCEPT !.progress = 0, !.loaded = 0, !.total = total, !.status = "uploading",
              !.error = "null"]

\* the pairs (loaded, total) up to 80 for which 100 * loaded / total is an exact
\* half while the double (loaded / total) * 100 falls just below it: 23 / 40
\* is 0.57499999999999996 and its product with 100 is 57.49999999999999
HalfLost == {<<23, 40>>, <<41, 40>>, <<51, 40>>, <<46, 80>>}

\* line 106: Math.round((loaded / total) * 100) in double arithmetic, for
\* loaded and total up to 80
Percentage(loaded, total) ==
    IF <<loaded, total>> \in HalfLost THEN Round(loaded * 100, total) - 1
    ELSE Round(loaded * 100, total)

\* lines 103-106
Update(t, loaded, total) ==
    [t EXCEPT !.loaded = loaded, !.total = total,
              !.progress = IF total > 0 THEN Percentage(loaded, total) ELSE 0]

Complete(t) == [t EXCEPT !.progress = 100, !.status = "completed"]

Fail(t, error) ==
    [t EXCEPT !.status = "error",
              !.error = IF error.message # "" THEN error.message ELSE "Upload failed"]

Reset(t) == IdleTracker

(* ---- one upload() or download() call ---- *)

IdleTransfer ==
    [kind |-> "none",          \* "upload" or "download"
     pc |-> "idle",            \* where the call or its handler is suspended
     id |-> 0,                 \* requestId
     idx |-> 1,                \* the loop's iterator: the position it takes next
     entry |-> NoEntry,        \* the loop variable `interceptor` of the pending call
     wait |-> "",              \* the handler the loop awaits: "fulfilled" or
                               \* "rejected"; "end" when the loop is over
     detached |-> FALSE,       \* the loop's array is no longer this.interceptors[type]
     old |-> <<>>,             \* that array, once detached
     cur |-> Undefined,        \* the response or error of the running loop
     loaded |-> 0,             \* download: bytes read so far
     total |-> 0,              \* download: the announced Content-Length
     chunks |-> <<>>,          \* download: the chunks array
     blob |-> <<>>,            \* download: the bytes of result.blob
     arrived |-> <<>>,         \* history: the chunks the stream delivered
     onComplete |-> "returns", \* what the onComplete callback does
     onError |-> "returns",    \* what the onError callback does
     promise |-> "pending",    \* the returned promise
     value |-> Undefined,      \* what it settled with
     settles |-> 0,            \* history: calls of resolve / reject
     sends |-> 0,              \* history: times the transfer was sent
     recovered |-> FALSE,      \* history: an error handler returned a value
     aborted |-> ""]           \* history: where a download was when its signal aborted

(* ---- strings, as sequences of one-character strings ---- *)

\* the strings the request lifecycle names, spelled out
Chars(s) ==
    CASE s = "/a" -> <<"/", "a">>
      [] s = "/h" -> <<"/", "h">>
      [] s = "http" -> <<"h", "t", "t", "p">>
      [] s = "https://h" -> <<"h", "t", "t", "p", "s", ":", "/", "/", "h">>
      [] s = "http://x/a" -> <<"h", "t", "t", "p", ":", "/", "/", "x", "/", "a">>
      [] s = "/a?x" -> <<"/", "a", "?", "x">>
      [] s = "/v?" -> <<"/", "v", "?">>
      [] s = "a b" -> <<"a", " ", "b">>
      [] s = "a&b" -> <<"a", "&", "b">>
      [] s = "k" -> <<"k">>
      [] s = "1" -> <<"1">>
      [] s = "x" -> <<"x">>
      [] s = "y" -> <<"y">>
      [] OTHER -> <<>>

\* String.prototype.startsWith
StartsWith(s, prefix) ==
    /\ Len(s) >= Len(prefix)
    /\ SubSeq(s, 1, Len(prefix)) = prefix

\* String.prototype.includes, for a one-character needle
Includes(s, c) == \E k \in 1..Len(s) : s[k] = c

(* ---- headers objects and client configs ---- *)

HeaderKeys == {"Content-Type", "Authorization", "X-Trace"}

\* the value of a key that an object does not have
Absent == "absent"

HeaderObj(ct, auth, trace) ==
    [k \in HeaderKeys |-> CASE k = "Content-Type" -> ct
                            [] k = "Authorization" -> auth
                            [] OTHER -> trace]

EmptyHeaders == HeaderObj(Absent, Absent, Absent)

\* object spread { ...a, ...b }
Spread(a, b) == [k \in HeaderKeys |-> IF b[k] # Absent THEN b[k] ELSE a[k]]

\* lines 25-34, DEFAULT_CONFIG
DefaultHeaders == HeaderObj("application/json", Absent, Absent)

DefaultTimeout == 30000

DefaultBaseURL == <<>>

\* the reference of DEFAULT_CONFIG.headers, the one object of the module
DefaultRef == 1

\* an optional `headers` property of a config or of the options
NotGiven == [given |-> FALSE, map |-> EmptyHeaders]

Given(m) == [given |-> TRUE, map |-> m]

\* an optional scalar property
Unset == "unset"

\* lines 438-451: headers starts as a copy of the instance headers (440), the
\* spread of options replaces it by options.headers when the options have
\* that property (445), and line 450 then spreads options.headers over it
ResolveHeaders(instance, headers) ==
    LET copied == Spread(EmptyHeaders, instance)
        overwritten == IF headers.given THEN headers.map ELSE copied IN
    IF headers.given THEN Spread(overwritten, headers.map) ELSE overwritten

\* line 156: this.config = { ...DEFAULT_CONFIG, ...config }, with the headers
\* object of config, when it has one, stored by reference at heap position ref
Construct(config, ref) ==
    [baseURL |-> IF config.baseURL = Unset THEN DefaultBaseURL ELSE Chars(config.baseURL),
     timeout |-> IF config.timeout = Unset THEN DefaultTimeout ELSE config.timeout,
     headers |-> IF config.headers.given THEN ref ELSE DefaultRef]

\* the headers a client has now
HeadersOf(c) == heap[clients[c].headers]

(* ---- buildURL: lines 324-346 ---- *)

\* a value of params: undefined, null, a scalar or a list of scalars
ParamValue(kind, s, items) == [kind |-> kind, s |-> s, items |-> items]

\* the application/x-www-form-urlencoded byte serializer of
\* URLSearchParams.toString(), on the characters the model uses
EncodeChar(c) ==
    CASE c = " " -> <<"+">>
      [] c = "&" -> <<"%", "2", "6">>
      [] c = "=" -> <<"%", "3", "D">>
      [] c = "?" -> <<"%", "3", "F">>
      [] c = "/" -> <<"%", "2", "F">>
      [] c = ":" -> <<"%", "3", "A">>
      [] OTHER -> <<c>>

RECURSIVE Encode(_)
Encode(s) == IF s = <<>> THEN <<>> ELSE EncodeChar(Head(s)) \o Encode(Tail(s))

\* value.forEach(v => queryParams.append(key, v))
RECURSIVE AppendEach(_, _, _)
AppendEach(list, key, items) ==
    IF items = <<>> THEN list
    ELSE AppendEach(Append(list, <<key, Head(items)>>), key, Tail(items))

\* lines 329-338: the loop over Object.entries(params), filling queryParams
RECURSIVE FillQueryParams(_, _)
FillQueryParams(list, entries) ==
    IF entries = <<>> THEN list
    ELSE LET key == Head(entries).key
             value == Head(entries).value
             filled == CASE value.kind \in {"undefined", "null"} -> list
                         [] value.kind = "list" -> AppendEach(list, key, value.items)
                         [] OTHER -> Append(list, <<key, value.s>>) IN
         FillQueryParams(filled, Tail(entries))

\* URLSearchParams.prototype.toString
RECURSIVE Serialize(_)
Serialize(list) ==
    IF list = <<>> THEN <<>>
    ELSE LET pair == Encode(Head(list)[1]) \o <<"=">> \o Encode(Head(list)[2]) IN
         IF Len(list) = 1 THEN pair ELSE pair \o <<"&">> \o Serialize(Tail(list))

\* a separator that is always '?'
SeparatorAlwaysQuestion(fullURL) == <<"?">>

\* line 342: fullURL.includes('?') ? '&' : '?'
Separator(fullURL) == IF Includes(fullURL, "?") THEN <<"&">> ELSE <<"?">>

BuildURL(baseURL, url, params) ==
    LET fullURL == IF StartsWith(url, Chars("http")) THEN url ELSE baseURL \o url
        queryString == Serialize(FillQueryParams(<<>>, params)) IN
    IF queryString # <<>> THEN fullURL \o Separator(fullURL) \o queryString
    ELSE fullURL

(* ---- the locals of one request() call ---- *)

\* a key that an object does not have
Missing == "missing"

NoConfig == [url |-> "", method |-> "GET", retries |-> 0,
             headers |-> EmptyHeaders, timeout |-> 0, body |-> Missing]

IdleRequest ==
    [pc |-> "idle",          \* where the call is suspended
     config |-> NoConfig,    \* the merged config (the fields the lifecycle reads)
     retriesLeft |-> 0,      \* executeRequest's parameter
     idx |-> 1,              \* the loop's iterator: the position it takes next
     entry |-> NoEntry,      \* the loop variable `interceptor` of the pending call
     wait |-> "",            \* the handler the loop awaits: "fulfilled" or
                             \* "rejected"; "end" when the loop is over
     detached |-> FALSE,     \* the loop's array is no longer this.interceptors[type]
     old |-> <<>>,           \* that array, once detached
     marks |-> <<>>,         \* what the request interceptors left on modifiedConfig
     sent |-> <<>>,          \* the same, as handed to fetch() in fetchOptions
     fetch |-> [url |-> <<>>, method |-> "", headers |-> EmptyHeaders,
                body |-> Missing],
                             \* the url and the fetchOptions of lines 462-470
     issued |-> [baseURL |-> <<>>, headers |-> EmptyHeaders, options |-> NotGiven,
                 config |-> NoConfig],
                             \* history: the instance config, the headers option
                             \* and the merged config when request() was called
     ran |-> <<>>,           \* history: the fulfilled handlers called, and with what
     cur |-> Undefined,      \* modifiedResponse / error of the running loop
     failure |-> Undefined,  \* history: the error given to runResponseErrorInterceptors
     armedAt |-> 0,          \* history: the attempt at whose start setTimeout was called
     firedIn |-> "",         \* history: where the request was when its signal aborted
     cancelledIn |-> "",     \* history: where it was when a cancel call found its id
     resp |-> NetworkFailure,\* the Response whose body is being read
     signal |-> FALSE,       \* abortController.signal.aborted
     timer |-> FALSE,        \* the setTimeout of line 492 is pending
     outcome |-> "none",     \* how the returned promise settled
     result |-> Undefined,   \* the value or error it settled with
     attempts |-> 0,         \* history: fetch() calls made
     waits |-> 0,            \* history: retryDelay waits started
     hist |-> <<>>,          \* history: what each fetch() settled with
     timedOut |-> FALSE,     \* history: the timeout fired during the transfer
     threw |-> FALSE,        \* history: an interceptor handler threw
     recovered |-> FALSE]    \* history: a rejected handler's value was returned

(* ---- the array a for...of loop over this.interceptors[type] iterates ---- *)

\* lines 356, 381, 404: the loop keeps the array it began with. push and
\* splice change that array in place; clearInterceptors puts new arrays in
\* this.interceptors, and a running loop goes on with the one it holds.
ListOf(r, type) == IF r.detached THEN r.old ELSE interceptors[type]

LoopType(pc) == IF pc = "reqInterceptors" THEN "request" ELSE "response"

InLoop(pc) == pc \in {"reqInterceptors", "respInterceptors", "errInterceptors"}

\* what lines 314-315 leave a call with: the array its loop holds is no
\* longer one of this.interceptors
Detach(r) ==
    IF InLoop(r.pc) /\ r.wait # "end" /\ ~r.detached
    THEN [r EXCEPT !.detached = TRUE, !.old = interceptors[LoopType(r.pc)]]
    ELSE r

\* a call that is in no loop: one that begins will hold this.interceptors[type]
Attach(r) == [r EXCEPT !.detached = FALSE, !.old = <<>>, !.entry = NoEntry, !.wait = ""]

\* lines 356-358, 381-383, 404-405: the iterator goes on from position `from`;
\* an entry without the handler of `side` is passed without an await. The
\* position of the first entry whose handler is called, 0 when the array ends
NextCall(list, from, side) ==
    LET calls == {k \in from..Len(list) : list[k][side] # "none"} IN
    IF calls = {} THEN 0 ELSE CHOOSE k \in calls : \A j \in calls : k <= j

\* the loop runs on, in one synchronous run, until it has called a handler
\* (which it awaits) or the array has ended
Continue(r, list, side) ==
    LET k == NextCall(list, r.idx, side) IN
    IF k = 0 THEN [r EXCEPT !.wait = "end", !.entry = NoEntry, !.idx = Len(list) + 1]
    ELSE [r EXCEPT !.wait = side, !.entry = list[k], !.idx = k + 1]

\* line 359: the same for runRequestInterceptors, whose handler is called
\* with modifiedConfig
ContinueRequest(r, list) ==
    LET c == Continue(r, list, "fulfilled") IN
    IF c.wait = "fulfilled"
    THEN [c EXCEPT !.ran = Append(@, [id |-> c.entry.id, got |-> r.marks])]
    ELSE c

(* ---- pure helpers of executeRequest ---- *)

\* lines 502-517: how the body is read; "SyntaxError" when response.json() rejects
ParseData(resp) ==
    IF resp.ctype = "application/json"
    THEN (IF resp.jsonBody THEN "json" ELSE "SyntaxError")
    ELSE IF resp.ctype = "text/plain" THEN "text"
    ELSE (IF resp.jsonBody THEN "json" ELSE "text")

\* a retry test that also takes client errors (4xx) for retryable
RetryOnStatusAnyError(status, retriesLeft) == status >= 400 /\ retriesLeft > 0

\* line 539: the retry test for an HTTP error response
RetryOnStatus(status, retriesLeft) == status >= 500 /\ retriesLeft > 0

\* an abort test that looks for another error name
IsAbortErrorWrongName(error) == error.name = "TimeoutError"

\* line 552: the abort test of the catch block
IsAbortError(error) == error.name = "AbortError"

\* a retry test that does not look at the retries left
RetryOnErrorAlways(error, retriesLeft) == error.name = "TypeError"

\* line 557: the retry test for a thrown error
RetryOnError(error, retriesLeft) == error.name = "TypeError" /\ retriesLeft > 0

\* lines 324-326, 466: building the URL and the fetch options throws a TypeError
\* when config.url is not a string
BuildThrows(config) == config.url = "undefined"

(* ---- leaving request() ---- *)

\* a finally block that forgets the counter
SettleKeepsPending(i, r, outcome, result) ==
    /\ req' = [req EXCEPT ![i] = [Attach(r) EXCEPT !.pc = "done", !.outcome = outcome,
                                            !.result = result, !.timer = FALSE]]
    /\ abortControllers' = abortControllers \ {i}
    /\ loading' = (pendingRequests > 0)
    /\ UNCHANGED <<sideVars, interceptors, pendingRequests, stateError, lastRequest, nextId>>

\* lines 571-579: the finally block, then the promise settles
Settle(i, r, outcome, result) ==
    /\ req' = [req EXCEPT ![i] = [Attach(r) EXCEPT !.pc = "done", !.outcome = outcome,
                                            !.result = result, !.timer = FALSE]]
    /\ abortControllers' = abortControllers \ {i}
    /\ pendingRequests' = pendingRequests - 1
    /\ loading' = (pendingRequests - 1 > 0)
    /\ UNCHANGED <<sideVars, interceptors, stateError, lastRequest, nextId>>

\* a step that only moves the request along
Move(i, r) ==
    /\ req' = [req EXCEPT ![i] = r]
    /\ UNCHANGED <<sideVars, interceptors, abortControllers, clientState, nextId>>

\* an abort reported under a name of its own
AbortRejectionCancelled == HttpError("Request cancelled", 0)

\* line 553: what request() rejects with when its signal aborted
AbortRejection == HttpError("Request timeout", 408)

\* a catch block that hands the abort to the error interceptors as well
CatchBlockAbortToInterceptors(i, r, error) ==
    IF RetryOnError(error, r.retriesLeft)
    THEN Move(i, [Attach(r) EXCEPT !.pc = "retryWait", !.waits = @ + 1])
    ELSE Move(i, Continue([Attach(r) EXCEPT
                               !.pc = "errInterceptors", !.idx = 1,
                               !.cur = IF IsAbortError(error) THEN AbortRejection ELSE error,
                               !.failure = error],
                          interceptors.response, "rejected"))

\* lines 550-568: the catch block of executeRequest
CatchBlock(i, r, error) ==
    IF IsAbortError(error)
    THEN Settle(i, r, "rejected", AbortRejection)
    ELSE IF RetryOnError(error, r.retriesLeft)
    THEN Move(i, [Attach(r) EXCEPT !.pc = "retryWait", !.waits = @ + 1])
    ELSE Move(i, Continue([Attach(r) EXCEPT !.pc = "errInterceptors", !.idx = 1,
                                            !.cur = error, !.failure = error],
                          interceptors.response, "rejected"))

(* ---- request(): lines 432-459 ---- *)

\* what the caller passes: url (possibly missing) and retries
Options == [url : {"/a", "undefined"}, method : {"GET"}, retries : 0..MaxRetries,
            headers : {NotGiven}, body : {Missing}]

\* the config a recovering request-side `rejected` handler returns: it is
\* given the error only, so its value carries no retries
HandlerConfig == [url |-> "/h", method |-> "GET", retries |-> 0,
                  headers |-> EmptyHeaders, timeout |-> 0, body |-> Missing]

\* String.prototype.toUpperCase, on the method names the model uses
ToUpperCase(m) ==
    CASE m \in {"GET", "get", "Get"} -> "GET"
      [] m \in {"POST", "post"} -> "POST"
      [] m \in {"PURGE", "purge"} -> "PURGE"
      [] OTHER -> m

\* lines 438-451: the merged config
MergeConfig(this, options) ==
    [url |-> options.url, method |-> options.method, retries |-> options.retries,
     headers |-> ResolveHeaders(heap[this.headers], options.headers),
     timeout |-> this.timeout, body |-> options.body]

\* JSON.stringify of the plain objects the model uses
Stringify(body) == IF body = "emptyObject" THEN "{}" ELSE "{\"k\":1}"

\* lines 465-483: fetchOptions for a config. A body goes along when it is
\* defined and the method is neither GET nor HEAD: a FormData as it is, and
\* without the Content-Type header; an object serialized; the rest as it is
FetchOptions(config) ==
    LET method == ToUpperCase(config.method)
        withBody == /\ config.body \notin {Missing, "undefined"}
                    /\ method \notin {"GET", "HEAD"} IN
    [method |-> method,
     headers |-> IF withBody /\ config.body = "formdata"
                 THEN [config.headers EXCEPT !["Content-Type"] = Absent]
                 ELSE config.headers,
     body |-> IF ~withBody THEN Missing
              ELSE IF config.body \in {"object", "emptyObject"} THEN Stringify(config.body)
              ELSE config.body]

\* lines 359-360: the config a `fulfilled` handler returns
EditConfig(e, config) ==
    CASE e.fulfilled = "methodGet" -> [config EXCEPT !.method = "get"]
      [] e.fulfilled = "methodPost" -> [config EXCEPT !.method = "post"]
      [] OTHER -> config

\* lines 433-455: allocate the id, register the controller, merge the config and
\* enter the request interceptors
Request(options) ==
    /\ nextId \in ReqIds
    /\ req[nextId].pc = "idle"
    /\ abortControllers' = abortControllers \cup {nextId}
    /\ req' = [req EXCEPT ![nextId] =
                  ContinueRequest(
                      [@ EXCEPT !.pc = "reqInterceptors",
                                !.config = MergeConfig(clients[1], options),
                                !.issued = [baseURL |-> clients[1].baseURL,
                                            headers |-> HeadersOf(1),
                                            options |-> options.headers,
                                            config |-> MergeConfig(clients[1], options)],
                                !.idx = 1],
                      interceptors.request)]
    /\ nextId' = nextId + 1
    /\ UNCHANGED <<sideVars, interceptors, clientState>>

\* a handler call whose falsy result replaces the config
ApplyFulfilledNoFallback(e, marks) ==
    CASE e.fulfilled = "mark" -> Append(marks, e.id)
      [] e.fulfilled = "undefined" -> <<>>
      [] OTHER -> marks

\* a handler call that is given the original config, not the previous output
ApplyFulfilledToOriginal(e, marks) ==
    IF e.fulfilled = "mark" THEN <<e.id>> ELSE marks

\* line 359: modifiedConfig = await interceptor.fulfilled(modifiedConfig) || modifiedConfig
ApplyFulfilled(e, marks) ==
    IF e.fulfilled = "mark" THEN Append(marks, e.id) ELSE marks

\* a catch block that rethrows without releasing the id
RequestInterceptorFailKeepsId(i, r, error) ==
    /\ req' = [req EXCEPT ![i] = [Attach(r) EXCEPT !.pc = "done", !.outcome = "rejected",
                                            !.result = error, !.threw = TRUE]]
    /\ UNCHANGED <<sideVars, interceptors, abortControllers, clientState, nextId>>

\* lines 456-459: runRequestInterceptors threw
RequestInterceptorFail(i, r, error) ==
    /\ abortControllers' = abortControllers \ {i}
    /\ req' = [req EXCEPT ![i] = [Attach(r) EXCEPT !.pc = "done", !.outcome = "rejected",
                                            !.result = error, !.threw = TRUE]]
    /\ UNCHANGED <<sideVars, interceptors, clientState, nextId>>

\* lines 356-368: the handler that runRequestInterceptors awaits settles. A
\* value goes into modifiedConfig and the loop runs on; what `fulfilled`
\* throws goes to `rejected`, which is awaited in its turn, or on to the catch
\* of lines 456-459
StepRequestInterceptor(i) ==
    LET r == req[i]
        e == r.entry
        list == ListOf(r, "request") IN
    /\ r.pc = "reqInterceptors"
    /\ r.wait \in {"fulfilled", "rejected"}
    /\ IF r.wait = "fulfilled"
       THEN IF ~Throws(e.fulfilled)
            THEN Move(i, ContinueRequest([r EXCEPT !.marks = ApplyFulfilled(e, r.marks),
                                                   !.config = EditConfig(e, r.config)],
                                         list))
            ELSE IF e.rejected = "none"
            THEN RequestInterceptorFail(i, r, ThrownBy(e.fulfilled))
            ELSE Move(i, [r EXCEPT !.wait = "rejected", !.threw = TRUE])
       ELSE CASE e.rejected = "value" ->
                    Move(i, ContinueRequest([r EXCEPT !.config = HandlerConfig,
                                                      !.marks = <<>>], list))
              [] e.rejected = "undefined" -> Move(i, ContinueRequest(r, list))
              [] e.rejected = "throw" -> RequestInterceptorFail(i, r, HandlerError)
              [] OTHER -> RequestInterceptorFail(i, r, ThrownBy(e.fulfilled))

(* ---- request(): lines 461-499 ---- *)

\* the request interceptors returned: build the URL and the fetch options,
\* update the global state, arm the timeout and call executeRequest
StartTransfer(i) ==
    LET r == req[i] IN
    /\ r.pc = "reqInterceptors"
    /\ r.wait = "end"
    /\ IF BuildThrows(r.config)
       THEN Move(i, [Attach(r) EXCEPT !.pc = "done", !.outcome = "rejected",
                              !.result = JsError("TypeError", "url is undefined")])
       ELSE /\ loading' = TRUE
            /\ pendingRequests' = pendingRequests + 1
            /\ lastRequest' = <<BuildURL(clients[1].baseURL, Chars(r.config.url), <<>>),
                                ToUpperCase(r.config.method)>>
            /\ stateError' = "null"
            /\ req' = [req EXCEPT ![i] = [Attach(r) EXCEPT !.pc = "fetching", !.timer = TRUE,
                                                    !.sent = r.marks,
                                                    !.config.headers =
                                                      FetchOptions(r.config).headers,
                                                    !.fetch =
                                                      [url |-> BuildURL(clients[1].baseURL,
                                                                        Chars(r.config.url), <<>>),
                                                       method |-> FetchOptions(r.config).method,
                                                       headers |-> FetchOptions(r.config).headers,
                                                       body |-> FetchOptions(r.config).body],
                                                    !.retriesLeft = r.config.retries,
                                                    !.attempts = 1, !.armedAt = 1]]
            /\ UNCHANGED <<sideVars, interceptors, abortControllers, nextId>>

\* lines 492-494: the timeout callback
TimeoutFire(i) ==
    LET r == req[i] IN
    /\ r.timer
    /\ Move(i, [r EXCEPT !.timer = FALSE, !.signal = TRUE,
                         !.firedIn = IF r.signal THEN @ ELSE r.pc,
                         !.timedOut = @ \/ r.pc \in {"fetching", "parsing", "retryWait"}])

(* ---- executeRequest: lines 497-569 ---- *)

\* line 499: fetch() settles, with a response or with a network failure
FetchSettle(i, o) ==
    LET r == req[i]
        h == [r EXCEPT !.hist = Append(@, o)] IN
    /\ r.pc = "fetching"
    /\ ~r.signal
    /\ IF o.kind = "network"
       THEN CatchBlock(i, h, JsError("TypeError", "Failed to fetch"))
       ELSE Move(i, [h EXCEPT !.pc = "parsing", !.resp = o])

\* lines 499-516: the signal is aborted, so fetch() or the body read rejects
FetchAbort(i) ==
    LET r == req[i] IN
    /\ r.pc \in {"fetching", "parsing"}
    /\ r.signal
    /\ CatchBlock(i, r, JsError("AbortError", "The operation was aborted"))

\* lines 501-548: the body has been read; build responseObj and classify it
ParseBody(i) ==
    LET r == req[i]
        data == ParseData(r.resp)
        obj == ResponseObj(r.resp.status, r.resp.statusText, data)
        message == FirstNonEmpty(IF data = "json" THEN r.resp.message ELSE "",
                                 r.resp.statusText,
                                 "Request failed with status " \o ToString(r.resp.status)) IN
    /\ r.pc = "parsing"
    /\ ~r.signal
    /\ IF data = "SyntaxError"
       THEN CatchBlock(i, r, JsError("SyntaxError", "Unexpected token"))
       ELSE IF ~ResponseOk(r.resp.status)
       THEN IF RetryOnStatus(r.resp.status, r.retriesLeft)
            THEN Move(i, [r EXCEPT !.pc = "retryWait", !.waits = @ + 1])
            ELSE CatchBlock(i, r, HttpError(message, r.resp.status))
       ELSE Move(i, Continue([Attach(r) EXCEPT !.pc = "respInterceptors", !.idx = 1,
                                               !.cur = obj],
                             interceptors.response, "fulfilled"))

\* lines 540-541 and 558-559: the retry delay elapsed; executeRequest(retriesLeft - 1)
RetryTimer(i) ==
    LET r == req[i] IN
    /\ r.pc = "retryWait"
    /\ Move(i, [r EXCEPT !.pc = "fetching", !.retriesLeft = @ - 1, !.attempts = @ + 1])

(* ---- the response-side chains ---- *)

\* lines 381-393: the handler that runResponseInterceptors awaits settles
StepResponseInterceptor(i) ==
    LET r == req[i]
        e == r.entry
        list == ListOf(r, "response") IN
    /\ r.pc = "respInterceptors"
    /\ r.wait \in {"fulfilled", "rejected"}
    /\ IF r.wait = "fulfilled"
       THEN IF ~Throws(e.fulfilled)
            THEN Move(i, Continue(r, list, "fulfilled"))
            ELSE IF e.rejected = "none"
            THEN CatchBlock(i, [r EXCEPT !.threw = TRUE], ThrownBy(e.fulfilled))
            ELSE Move(i, [r EXCEPT !.wait = "rejected", !.threw = TRUE])
       ELSE CASE e.rejected = "value" ->
                    Move(i, Continue([r EXCEPT !.cur = HandlerValue], list, "fulfilled"))
              [] e.rejected = "undefined" ->
                    Move(i, Continue([r EXCEPT !.cur = Undefined], list, "fulfilled"))
              [] e.rejected = "throw" -> CatchBlock(i, r, HandlerError)
              [] OTHER -> CatchBlock(i, r, ThrownBy(e.fulfilled))

\* lines 395, 548, 572-573: the chain is done, request() resolves
ResolveResponse(i) ==
    LET r == req[i] IN
    /\ r.pc = "respInterceptors"
    /\ r.wait = "end"
    /\ Settle(i, r, "resolved", r.cur)

\* lines 404-415: the `rejected` handler that runResponseErrorInterceptors
\* awaits settles
StepErrorInterceptor(i) ==
    LET r == req[i]
        e == r.entry
        list == ListOf(r, "response") IN
    /\ r.pc = "errInterceptors"
    /\ r.wait = "rejected"
    /\ CASE e.rejected = "value" ->
                Settle(i, [r EXCEPT !.recovered = TRUE], "resolved", HandlerValue)
         [] e.rejected = "rethrow" ->
                Move(i, Continue([r EXCEPT !.threw = TRUE], list, "rejected"))
         [] e.rejected = "throw" ->
                Move(i, Continue([r EXCEPT !.cur = HandlerError, !.threw = TRUE],
                                 list, "rejected"))
         [] OTHER -> Move(i, Continue(r, list, "rejected"))

\* lines 416, 563-567: no handler recovered, request() rejects
RejectError(i) ==
    LET r == req[i] IN
    /\ r.pc = "errInterceptors"
    /\ r.wait = "end"
    /\ Settle(i, r, "rejected", r.cur)

(* ---- cancellation: lines 987-1005 ---- *)

\* resolve(v) or reject(v) of the promise: only the first call settles it
SettleTransfer(x, how, v) ==
    [Attach(x) EXCEPT !.pc = "ended",
              !.promise = IF x.promise = "pending" THEN how ELSE @,
              !.value = IF x.promise = "pending" THEN v ELSE @,
              !.settles = @ + 1]

\* `if (onError) onError(e); reject(e);` at the end of a handler of upload():
\* a callback that throws ends the handler before reject
OnErrorThenReject(x, e) ==
    IF x.onError = "throws" THEN [Attach(x) EXCEPT !.pc = "ended"]
    ELSE SettleTransfer(x, "rejected", e)

\* lines 785-809: the errors of the error, abort and timeout events
UploadEventError(event) ==
    CASE event = "error" -> HttpError("Network error during upload", 0)
      [] event = "abort" -> HttpError("Upload cancelled", 0)
      [] OTHER -> HttpError("Upload timeout", 408)

\* controller.abort() for a request whose id a cancel call found in the registry
Abort(r) ==
    [r EXCEPT !.signal = TRUE,
              !.firedIn = IF r.signal THEN @ ELSE r.pc,
              !.cancelledIn = r.pc]

\* the id is the one of the upload() or download() call
IsTransfer(id) == xfer.kind # "none" /\ xfer.id = id

\* controller.abort() for the transfer (lines 841, 978, 990, 1000). An
\* upload's signal listener calls xhr.abort() (lines 812-814) and, when the
\* request was sent and has not ended, the abort event runs its handler (lines
\* 794-800) inside the call; the pending fetch or read of a download rejects
\* afterwards. Otherwise nothing reads the signal.
AbortTransfer(x) ==
    IF x.kind = "upload" /\ x.pc = "sending"
    THEN OnErrorThenReject(x, UploadEventError("abort"))
    ELSE IF x.kind = "download" /\ x.pc \in {"fetching", "reading"} /\ x.aborted = ""
    THEN [x EXCEPT !.aborted = x.pc]
    ELSE x

\* line 798: tracker.fail(error) in the abort handler of the upload
AbortTracker(t, x) ==
    IF x.kind = "upload" /\ x.pc = "sending" THEN Fail(t, UploadEventError("abort")) ELSE t

CancelRequest(requestId) ==
    /\ IF requestId \in abortControllers
       THEN /\ abortControllers' = abortControllers \ {requestId}
            /\ IF IsTransfer(requestId)
               THEN /\ xfer' = AbortTransfer(xfer)
                    /\ tracker' = AbortTracker(tracker, xfer)
                    /\ UNCHANGED req
               ELSE /\ req' = [req EXCEPT ![requestId] = Abort(@)]
                    /\ UNCHANGED <<xfer, tracker>>
       ELSE UNCHANGED <<req, abortControllers, xfer, tracker>>
    /\ UNCHANGED <<owners, configVars, probe, interceptors, clientState, nextId>>

CancelAll ==
    /\ req' = [i \in ReqIds |->
                 IF i \in abortControllers /\ ~IsTransfer(i) THEN Abort(req[i])
                 ELSE req[i]]
    /\ xfer' = IF xfer.id \in abortControllers THEN AbortTransfer(xfer) ELSE xfer
    /\ tracker' = IF xfer.id \in abortControllers THEN AbortTracker(tracker, xfer)
                  ELSE tracker
    /\ abortControllers' = {}
    /\ loading' = FALSE
    /\ pendingRequests' = 0
    /\ UNCHANGED <<owners, configVars, probe, interceptors, stateError,
                   lastRequest, nextId>>

(* ---- the client as constructed: lines 155-176 ---- *)

\* interceptor lists built by add calls alone: the entry at position k has id k - 1
ListsOf(kinds, n) ==
    UNION {[1..m -> kinds] : m \in 0..n}

WithIds(l) == [k \in 1..Len(l) |-> Entry(l[k].fulfilled, l[k].rejected, k - 1)]

Kinds(fs, rs) == [fulfilled : fs, rejected : rs]

NoCall == [op |-> "none"]

\* createHttpClient() without options
NoClientConfig == [baseURL |-> Unset, timeout |-> Unset, headers |-> NotGiven]

\* the add calls behind a list built by add calls alone: call k made the entry
\* at position k and returned the id k - 1
OwnersOf(l) == [made |-> [k \in 1..Len(l) |-> k], ids |-> [k \in 1..Len(l) |-> k - 1]]

\* the parts of the model that the request lifecycle does not use
InitRest ==
    /\ owners = [request |-> OwnersOf(interceptors.request),
                 response |-> OwnersOf(interceptors.response)]
    /\ heap = <<DefaultHeaders>>
    /\ clients = <<Construct(NoClientConfig, DefaultRef)>>
    /\ tracker = IdleTracker
    /\ xfer = IdleTransfer
    /\ probe = NoCall

InitClient ==
    /\ abortControllers = {}
    /\ pendingRequests = 0
    /\ loading = FALSE
    /\ stateError = "null"
    /\ lastRequest = <<>>
    /\ nextId = 1
    /\ req = [i \in ReqIds |-> IdleRequest]

\* the steps of the request() calls: at most `calls` calls, each with options
\* from `opts`, over a transport that answers a fetch() with one of `outcomes`
RequestSteps(calls, opts, outcomes) ==
    \/ \E o \in opts : nextId <= calls /\ Request(o)
    \/ \E i \in ReqIds : StepRequestInterceptor(i)
    \/ \E i \in ReqIds : StartTransfer(i)
    \/ \E i \in ReqIds : TimeoutFire(i)
    \/ \E i \in ReqIds, o \in outcomes : FetchSettle(i, o)
    \/ \E i \in ReqIds : FetchAbort(i)
    \/ \E i \in ReqIds : ParseBody(i)
    \/ \E i \in ReqIds : RetryTimer(i)
    \/ \E i \in ReqIds : StepResponseInterceptor(i)
    \/ \E i \in ReqIds : ResolveResponse(i)
    \/ \E i \in ReqIds : StepErrorInterceptor(i)
    \/ \E i \in ReqIds : RejectError(i)

Cancels ==
    \/ \E id \in ReqIds : CancelRequest(id)
    \/ CancelAll

InitInterceptors(reqKinds, respKinds, n) ==
    \E rq \in ListsOf(reqKinds, n), rs \in ListsOf(respKinds, n) :
        interceptors = [request |-> WithIds(rq), response |-> WithIds(rs)]

(* ---- Spec: concurrent request() calls with cancelRequest and cancelAll ---- *)

\* a transport that answers with JSON bodies, or fails
JsonOutcomes ==
    {o \in TransferOutcomes : o.kind = "network" \/ (o.ctype = "application/json" /\ o.jsonBody)}

Init ==
    /\ InitClient
    /\ InitInterceptors(Kinds({"throwError"}, {"none"}), Kinds({"ok"}, {"value"}), 1)
    /\ InitRest

Next ==
    \/ RequestSteps(MaxReq, Options, JsonOutcomes)
    \/ Cancels

Spec == Init /\ [][Next]_vars

(* ---- SpecOne: one request() call, interceptors that return or throw, every answer ---- *)

InitOne ==
    /\ InitClient
    /\ InitInterceptors(Kinds({"ok", "throwError"}, {"none"}),
                        Kinds({"ok", "throwTypeError", "throwError"}, {"none", "value"}),
                        MaxInterceptors)
    /\ InitRest

NextOne == RequestSteps(1, Options, TransferOutcomes)

SpecOne == InitOne /\ [][NextOne]_vars

(* ---- the interceptor registry: add, remove, clear ---- *)

\* the position of the first entry of list l with the given id, 0 if none
\* (findIndex of lines 293 and 304, which gives -1)
FindIndex(l, id) ==
    IF \E k \in 1..Len(l) : l[k].id = id
    THEN CHOOSE k \in 1..Len(l) : l[k].id = id /\ \A j \in 1..(k - 1) : l[j].id # id
    ELSE 0

\* splice(index, 1)
Splice(l, k) == [j \in 1..(Len(l) - 1) |-> IF j < k THEN l[j] ELSE l[j + 1]]

\* addRequestInterceptor and addResponseInterceptor (lines 270-274, 282-286):
\* the id is the length of the list at insertion
AddInterceptor(type, f, r) ==
    LET l == interceptors[type]
        id == Len(l)
        call == Len(owners[type].ids) + 1 IN
    /\ call <= MaxAdds
    /\ interceptors' = [interceptors EXCEPT ![type] = Append(l, Entry(f, r, id))]
    /\ owners' = [owners EXCEPT ![type] = [made |-> Append(@.made, call),
                                           ids |-> Append(@.ids, id)]]
    /\ probe' = [op |-> "add", type |-> type, id |-> id]
    /\ UNCHANGED <<lifecycleVars, configVars, tracker, xfer>>

\* removeRequestInterceptor and removeResponseInterceptor (lines 292-297, 303-308)
RemoveInterceptor(type, id) ==
    LET l == interceptors[type]
        index == FindIndex(l, id)
        made == owners[type].made
        left == IF index = 0 THEN made ELSE Splice(made, index) IN
    /\ interceptors' = [interceptors EXCEPT
                            ![type] = IF index = 0 THEN l ELSE Splice(l, index)]
    /\ owners' = [owners EXCEPT ![type].made = left]
    /\ probe' = [op |-> "remove", type |-> type, id |-> id,
                 before |-> made, after |-> left]
    /\ UNCHANGED <<lifecycleVars, configVars, tracker, xfer>>

\* lines 313-316: two new arrays; the calls that are inside a loop keep the
\* array they hold
ClearInterceptors ==
    /\ interceptors' = [request |-> <<>>, response |-> <<>>]
    /\ req' = [i \in DOMAIN req |-> Detach(req[i])]
    /\ xfer' = Detach(xfer)
    /\ owners' = [owners EXCEPT !.request.made = <<>>, !.response.made = <<>>]
    /\ probe' = [op |-> "clear"]
    /\ UNCHANGED <<abortControllers, pendingRequests, loading, stateError,
                   lastRequest, nextId, configVars, tracker>>

InitRegistry ==
    /\ InitClient
    /\ interceptors = [request |-> <<>>, response |-> <<>>]
    /\ owners = [request |-> OwnersOf(<<>>), response |-> OwnersOf(<<>>)]
    /\ heap = <<DefaultHeaders>>
    /\ clients = <<Construct(NoClientConfig, DefaultRef)>>
    /\ tracker = IdleTracker
    /\ xfer = IdleTransfer
    /\ probe = NoCall

NextRegistry ==
    \/ AddInterceptor("request", "ok", "none")
    \/ AddInterceptor("response", "ok", "value")
    \/ \E id \in 0..(MaxAdds - 1) : RemoveInterceptor("request", id)
    \/ \E id \in 0..(MaxAdds - 1) : RemoveInterceptor("response", id)
    \/ ClearInterceptors

SpecRegistry == InitRegistry /\ [][NextRegistry]_vars

(* ---- upload(): lines 662-844 ---- *)

CallbackKinds == {"returns", "throws"}

TransferFrame == UNCHANGED <<interceptors, owners, configVars, probe, clientState, req>>

\* lines 662-711 and 813-843: register the id, start the tracker, send. When
\* buildURL throws inside the executor (line 817) the promise is rejected with
\* what it threw: no handler runs, so the id stays registered and the tracker
\* stays as started
Upload(url, total, onComplete, onError) ==
    LET called == [xfer EXCEPT !.kind = "upload", !.id = nextId,
                               !.onComplete = onComplete, !.onError = onError] IN
    /\ xfer.pc = "idle"
    /\ nextId \in ReqIds
    /\ abortControllers' = abortControllers \cup {nextId}
    /\ nextId' = nextId + 1
    /\ tracker' = Start(tracker, total)
    /\ xfer' = IF BuildThrows([url |-> url])
               THEN SettleTransfer(called, "rejected",
                                   JsError("TypeError", "url is undefined"))
               ELSE [called EXCEPT !.pc = "sending", !.sends = @ + 1]
    /\ TransferFrame

\* lines 841 and 978: the abort function of the handle, abortController.abort()
TransferAbort ==
    /\ xfer.kind # "none"
    /\ xfer' = AbortTransfer(xfer)
    /\ tracker' = AbortTracker(tracker, xfer)
    /\ abortControllers' = IF xfer.kind = "upload" /\ xfer.pc = "sending"
                           THEN abortControllers \ {xfer.id}
                           ELSE abortControllers
    /\ UNCHANGED nextId
    /\ TransferFrame

\* lines 717-730: a progress event of the upload
UploadProgress(loaded, total) ==
    /\ xfer.kind = "upload"
    /\ xfer.pc = "sending"
    /\ tracker' = Update(tracker, loaded, total)
    /\ UNCHANGED <<abortControllers, nextId, xfer>>
    /\ TransferFrame

\* lines 733-770: the load event, up to the await of the interceptors
\* (xhr.status, xhr.statusText and the `message` member of the parsed
\* responseText, "" when it has none)
UploadLoad(status, statusText, message) ==
    LET error == HttpError(FirstNonEmpty(message, statusText, "Upload failed"), status) IN
    /\ xfer.kind = "upload"
    /\ xfer.pc = "sending"
    /\ abortControllers' = abortControllers \ {xfer.id}
    /\ IF ResponseOk(status)
       THEN /\ tracker' = Complete(tracker)
            /\ xfer' = Continue([Attach(xfer) EXCEPT
                                     !.pc = "respInterceptors", !.idx = 1,
                                     !.cur = ResponseObj(status, statusText, "json")],
                                interceptors.response, "fulfilled")
       ELSE /\ tracker' = Fail(tracker, error)
            /\ xfer' = Continue([Attach(xfer) EXCEPT !.pc = "errInterceptors", !.idx = 1,
                                                     !.cur = error],
                                interceptors.response, "rejected")
    /\ UNCHANGED nextId
    /\ TransferFrame

\* lines 762-766: the catch block around the response interceptors
UploadCatch(x, t, error) ==
    /\ tracker' = Fail(t, error)
    /\ xfer' = OnErrorThenReject(x, error)

\* lines 380-393, called at line 756: the awaited handler settles
UploadStepResponseInterceptor ==
    LET e == xfer.entry
        list == ListOf(xfer, "response") IN
    /\ xfer.kind = "upload"
    /\ xfer.pc = "respInterceptors"
    /\ xfer.wait \in {"fulfilled", "rejected"}
    /\ IF xfer.wait = "fulfilled"
       THEN IF ~Throws(e.fulfilled)
            THEN xfer' = Continue(xfer, list, "fulfilled") /\ UNCHANGED tracker
            ELSE IF e.rejected = "none"
            THEN UploadCatch(xfer, tracker, ThrownBy(e.fulfilled))
            ELSE xfer' = [xfer EXCEPT !.wait = "rejected"] /\ UNCHANGED tracker
       ELSE CASE e.rejected = "value" ->
                    /\ xfer' = Continue([xfer EXCEPT !.cur = HandlerValue], list, "fulfilled")
                    /\ UNCHANGED tracker
              [] e.rejected = "undefined" ->
                    /\ xfer' = Continue([xfer EXCEPT !.cur = Undefined], list, "fulfilled")
                    /\ UNCHANGED tracker
              [] e.rejected = "throw" -> UploadCatch(xfer, tracker, HandlerError)
              [] OTHER -> UploadCatch(xfer, tracker, ThrownBy(e.fulfilled))
    /\ UNCHANGED <<abortControllers, nextId>>
    /\ TransferFrame

\* lines 757-760: onComplete, inside the try, then resolve
UploadResolve ==
    /\ xfer.kind = "upload"
    /\ xfer.pc = "respInterceptors"
    /\ xfer.wait = "end"
    /\ IF xfer.onComplete = "throws"
       THEN UploadCatch(xfer, tracker, JsError("Error", "callback error"))
       ELSE xfer' = SettleTransfer(xfer, "resolved", xfer.cur) /\ UNCHANGED tracker
    /\ UNCHANGED <<abortControllers, nextId>>
    /\ TransferFrame

\* lines 404-415, called at line 776: the awaited `rejected` handler settles;
\* one that returns a value ends runResponseErrorInterceptors, and the load
\* handler with it
UploadStepErrorInterceptor ==
    LET e == xfer.entry
        list == ListOf(xfer, "response") IN
    /\ xfer.kind = "upload"
    /\ xfer.pc = "errInterceptors"
    /\ xfer.wait = "rejected"
    /\ CASE e.rejected = "value" ->
                xfer' = [Attach(xfer) EXCEPT !.pc = "ended", !.recovered = TRUE]
         [] e.rejected = "throw" ->
                xfer' = Continue([xfer EXCEPT !.cur = HandlerError], list, "rejected")
         [] OTHER -> xfer' = Continue(xfer, list, "rejected")
    /\ UNCHANGED <<abortControllers, nextId, tracker>>
    /\ TransferFrame

\* lines 416, 777-780: no handler recovered
UploadRejectError ==
    /\ xfer.kind = "upload"
    /\ xfer.pc = "errInterceptors"
    /\ xfer.wait = "end"
    /\ xfer' = OnErrorThenReject(xfer, xfer.cur)
    /\ UNCHANGED <<abortControllers, nextId, tracker>>
    /\ TransferFrame

\* lines 785-809: the handlers of the error, abort and timeout events
UploadFailEvent(event) ==
    /\ xfer.kind = "upload"
    /\ xfer.pc = "sending"
    /\ abortControllers' = abortControllers \ {xfer.id}
    /\ tracker' = Fail(tracker, UploadEventError(event))
    /\ xfer' = OnErrorThenReject(xfer, UploadEventError(event))
    /\ UNCHANGED nextId
    /\ TransferFrame

(* ---- download(): lines 871-981 ---- *)

\* lines 959-972: the catch block; a throwing onError replaces the error
DownloadCatch(x, t, error) ==
    LET failure == IF IsAbortError(error) THEN HttpError("Download cancelled", 0)
                   ELSE error IN
    /\ abortControllers' = abortControllers \ {x.id}
    /\ tracker' = Fail(t, failure)
    /\ xfer' = SettleTransfer(x, "rejected",
                              IF x.onError = "throws"
                              THEN JsError("Error", "callback error") ELSE failure)

\* a download that counts itself among the pending requests, as request() does
DownloadCountsPending(url, onComplete, onError) ==
    LET called == [xfer EXCEPT !.kind = "download", !.id = nextId,
                               !.onComplete = onComplete, !.onError = onError] IN
    /\ xfer.pc = "idle"
    /\ nextId \in ReqIds
    /\ nextId' = nextId + 1
    /\ IF BuildThrows([url |-> url])
       THEN DownloadCatch(called, tracker, JsError("TypeError", "url is undefined"))
       ELSE /\ abortControllers' = abortControllers \cup {nextId}
            /\ xfer' = [called EXCEPT !.pc = "fetching", !.sends = @ + 1]
            /\ UNCHANGED tracker
    /\ pendingRequests' = pendingRequests + 1
    /\ loading' = TRUE
    /\ UNCHANGED <<interceptors, owners, configVars, probe, stateError,
                   lastRequest, req>>

\* lines 871-891: register the id and call fetch. The async function runs up
\* to its first await inside the call: when buildURL throws (line 887) the
\* catch block runs there and takes the id out again
Download(url, onComplete, onError) ==
    LET called == [xfer EXCEPT !.kind = "download", !.id = nextId,
                               !.onComplete = onComplete, !.onError = onError] IN
    /\ xfer.pc = "idle"
    /\ nextId \in ReqIds
    /\ nextId' = nextId + 1
    /\ IF BuildThrows([url |-> url])
       THEN DownloadCatch(called, tracker, JsError("TypeError", "url is undefined"))
       ELSE /\ abortControllers' = abortControllers \cup {nextId}
            /\ xfer' = [called EXCEPT !.pc = "fetching", !.sends = @ + 1]
            /\ UNCHANGED tracker
    /\ TransferFrame

\* lines 893-904: fetch answered
DownloadResponse(status, total) ==
    /\ xfer.kind = "download"
    /\ xfer.pc = "fetching"
    /\ xfer.aborted = ""
    /\ IF ~ResponseOk(status)
       THEN DownloadCatch(xfer, tracker,
                          HttpError("Download failed with status " \o ToString(status),
                                    status))
       ELSE /\ tracker' = Start(tracker, total)
            /\ xfer' = [xfer EXCEPT !.pc = "reading", !.total = total, !.loaded = 0]
            /\ UNCHANGED abortControllers
    /\ UNCHANGED nextId
    /\ TransferFrame

\* fetch or reader.read() rejects: with an AbortError once the signal has
\* aborted, with the failure of the network before that
DownloadFail(error) ==
    /\ xfer.kind = "download"
    /\ xfer.pc \in {"fetching", "reading"}
    /\ IsAbortError(error) <=> xfer.aborted # ""
    /\ DownloadCatch(xfer, tracker, error)
    /\ UNCHANGED nextId
    /\ TransferFrame

\* chunks.unshift(value)
UnshiftChunk(chunks, value) == <<value>> \o chunks

\* line 915: chunks.push(value)
PushChunk(chunks, value) == Append(chunks, value)

\* line 936: new Blob(chunks), the bytes of the chunks one after the other
RECURSIVE Blob(_)
Blob(chunks) == IF chunks = <<>> THEN <<>> ELSE Head(chunks) \o Blob(Tail(chunks))

\* lines 910-930: one chunk read; its bytes carry its position in the stream
DownloadChunk(length) ==
    /\ xfer.kind = "download"
    /\ xfer.pc = "reading"
    /\ xfer.aborted = ""
    /\ xfer.loaded + length <= MaxBytes
    /\ LET value == [j \in 1..length |-> Len(xfer.arrived) + 1] IN
       xfer' = [xfer EXCEPT !.loaded = @ + length,
                            !.chunks = PushChunk(@, value),
                            !.arrived = Append(@, value)]
    /\ tracker' = IF xfer.total > 0 THEN Update(tracker, xfer.loaded + length, xfer.total)
                  ELSE tracker
    /\ UNCHANGED <<abortControllers, nextId>>
    /\ TransferFrame

\* lines 913, 933-959: the body ended
DownloadDone ==
    /\ xfer.kind = "download"
    /\ xfer.pc = "reading"
    /\ xfer.aborted = ""
    /\ IF xfer.onComplete = "throws"
       THEN DownloadCatch(xfer, Complete(tracker), JsError("Error", "callback error"))
       ELSE /\ tracker' = Complete(tracker)
            /\ abortControllers' = abortControllers \ {xfer.id}
            /\ xfer' = SettleTransfer([xfer EXCEPT !.blob = Blob(xfer.chunks)],
                                      "resolved", ResponseObj(200, "blob", "blob"))
    /\ UNCHANGED nextId
    /\ TransferFrame

(* ---- SpecTracker: the methods of a tracker called in any order ---- *)

\* where the last calls stand in the sequence reset, start(T), update(L, T):
\* phase 1 after a reset, 2 after the start that follows it, 3 after the
\* update that follows that; from is the status the reset found, before is
\* the call before the last one and prev the tracker a reset found
TrackerCalls(phase, total, loaded, last) ==
    [op |-> "tracker", phase |-> phase, total |-> total, loaded |-> loaded,
     from |-> IF phase = 1 THEN tracker.status ELSE probe.from,
     last |-> last, before |-> probe.last,
     prev |-> IF last = "reset" THEN tracker ELSE IdleTracker]

TrackerFrame == UNCHANGED <<lifecycleVars, interceptors, owners, configVars, xfer>>

TrackerStart(total) ==
    /\ tracker' = Start(tracker, total)
    /\ probe' = IF probe.phase = 1 THEN TrackerCalls(2, total, 0, "start")
                ELSE TrackerCalls(0, 0, 0, "start")
    /\ TrackerFrame

TrackerUpdate(loaded, total) ==
    /\ tracker' = Update(tracker, loaded, total)
    /\ probe' = IF probe.phase = 2 /\ probe.total = total
                THEN TrackerCalls(3, total, loaded, "update")
                ELSE TrackerCalls(0, 0, 0, "update")
    /\ TrackerFrame

TrackerComplete ==
    /\ tracker' = Complete(tracker)
    /\ probe' = TrackerCalls(0, 0, 0, "complete")
    /\ TrackerFrame

TrackerFail(error) ==
    /\ tracker' = Fail(tracker, error)
    /\ probe' = TrackerCalls(0, 0, 0, "fail")
    /\ TrackerFrame

TrackerReset ==
    /\ tracker' = Reset(tracker)
    /\ probe' = TrackerCalls(1, 0, 0, "reset")
    /\ TrackerFrame

InitTracker ==
    /\ InitClient
    /\ interceptors = [request |-> <<>>, response |-> <<>>]
    /\ owners = [request |-> OwnersOf(<<>>), response |-> OwnersOf(<<>>)]
    /\ heap = <<DefaultHeaders>>
    /\ clients = <<Construct(NoClientConfig, DefaultRef)>>
    /\ tracker = IdleTracker
    /\ xfer = IdleTransfer
    /\ probe = [op |-> "tracker", phase |-> 0, total |-> 0, loaded |-> 0,
                from |-> "idle", last |-> "none", before |-> "none",
                prev |-> IdleTracker]

\* byte counts given to a tracker
Sizes == 0..MaxBytes \cup {23, 40}

NextTracker ==
    \/ \E total \in Sizes : TrackerStart(total)
    \/ \E loaded, total \in Sizes : TrackerUpdate(loaded, total)
    \/ TrackerComplete
    \/ \E error \in {HttpError("Upload timeout", 408), JsError("Error", "")} :
           TrackerFail(error)
    \/ TrackerReset

SpecTracker == InitTracker /\ [][NextTracker]_vars

(* ---- SpecTransfer: one upload or download ---- *)

InitTransfer ==
    /\ InitClient
    /\ InitInterceptors({}, Kinds({"ok", "throwError"}, {"none", "value", "rethrow"}),
                        MaxInterceptors)
    /\ InitRest

NextTransfer ==
    \/ \E url \in {"/a", "undefined"}, total \in 0..MaxBytes, c, e \in CallbackKinds :
           Upload(url, total, c, e)
    \/ \E total \in 1..MaxBytes : \E loaded \in 0..total : UploadProgress(loaded, total)
    \/ \E status \in {200, 404} :
        \E statusText \in {"", StatusText(status)}, message \in {"", "boom"} :
            UploadLoad(status, statusText, message)
    \/ UploadStepResponseInterceptor
    \/ UploadResolve
    \/ UploadStepErrorInterceptor
    \/ UploadRejectError
    \/ \E event \in {"error", "abort", "timeout"} : UploadFailEvent(event)
    \/ \E url \in {"/a", "undefined"}, c, e \in CallbackKinds : Download(url, c, e)
    \/ TransferAbort
    \/ \E status \in {200, 404}, total \in 0..MaxBytes : DownloadResponse(status, total)
    \/ \E error \in {JsError("TypeError", "Failed to fetch"),
                      JsError("AbortError", "The operation was aborted.")} :
           DownloadFail(error)
    \/ \E length \in 1..MaxBytes : DownloadChunk(length)
    \/ DownloadDone
    \/ \E id \in ReqIds : CancelRequest(id)
    \/ CancelAll

SpecTransfer == InitTransfer /\ [][NextTransfer]_vars

(* ---- the config mutators: lines 183-262 ---- *)

Mutated(c) == [op |-> "mutator", client |-> c]

MutatorFrame == UNCHANGED <<lifecycleVars, interceptors, owners, tracker, xfer>>

SetBaseURL(c, url) ==
    /\ clients' = [clients EXCEPT ![c].baseURL = Chars(url)]
    /\ probe' = Mutated(c)
    /\ UNCHANGED heap
    /\ MutatorFrame

\* line 196: the headers object is written in place
SetHeader(c, key, value) ==
    /\ heap' = [heap EXCEPT ![clients[c].headers][key] = value]
    /\ probe' = Mutated(c)
    /\ UNCHANGED clients
    /\ MutatorFrame

\* line 206: a new headers object
SetHeaders(c, headers) ==
    /\ Len(heap) < MaxObjects
    /\ heap' = Append(heap, Spread(HeadersOf(c), headers))
    /\ clients' = [clients EXCEPT ![c].headers = Len(heap) + 1]
    /\ probe' = Mutated(c)
    /\ MutatorFrame

\* line 216
RemoveHeader(c, key) ==
    /\ heap' = [heap EXCEPT ![clients[c].headers][key] = Absent]
    /\ probe' = Mutated(c)
    /\ UNCHANGED clients
    /\ MutatorFrame

\* lines 225-232: an empty token deletes the header
SetAuthToken(c, token) ==
    /\ heap' = [heap EXCEPT ![clients[c].headers]["Authorization"] =
                                IF token # "" THEN "Bearer " \o token ELSE Absent]
    /\ probe' = Mutated(c)
    /\ UNCHANGED clients
    /\ MutatorFrame

\* btoa, on the credentials the model uses
Btoa(text) ==
    CASE text = "u:p" -> "dTpw"
      [] text = "u:" -> "dTo="
      [] text = ":" -> "Og=="

\* lines 239-243: no check of the arguments; the header is written in place
SetBasicAuth(c, username, password) ==
    /\ heap' = [heap EXCEPT ![clients[c].headers]["Authorization"] =
                                "Basic " \o Btoa(username \o ":" \o password)]
    /\ probe' = Mutated(c)
    /\ UNCHANGED clients
    /\ MutatorFrame

\* lines 249-252: the header is deleted in place
ClearAuth(c) ==
    /\ heap' = [heap EXCEPT ![clients[c].headers]["Authorization"] = Absent]
    /\ probe' = Mutated(c)
    /\ UNCHANGED clients
    /\ MutatorFrame

SetTimeout(c, ms) ==
    /\ clients' = [clients EXCEPT ![c].timeout = ms]
    /\ probe' = Mutated(c)
    /\ UNCHANGED heap
    /\ MutatorFrame

Mutators(c) ==
    \/ SetBaseURL(c, "https://h")
    \/ SetHeader(c, "X-Trace", "1")
    \/ SetHeaders(c, HeaderObj(Absent, Absent, "2"))
    \/ RemoveHeader(c, "Content-Type")
    \/ \E token \in {"t", ""} : SetAuthToken(c, token)
    \/ SetBasicAuth(c, "u", "p")
    \/ ClearAuth(c)
    \/ SetTimeout(c, 5000)

(* ---- building clients: lines 155-156, 1012-1018, 1100-1106 ---- *)

ClientConfigs ==
    [baseURL : {Unset, "https://h"}, timeout : {Unset},
     headers : {NotGiven, Given(HeaderObj(Absent, "Bearer k", Absent))}]

\* createHttpClient(config) and new ZogHttpClient(config, ...)
NewClient(config) ==
    /\ Len(clients) < MaxClients
    /\ config.headers.given => Len(heap) < MaxObjects
    /\ heap' = IF config.headers.given THEN Append(heap, config.headers.map) ELSE heap
    /\ clients' = Append(clients, Construct(config, Len(heap) + 1))
    /\ probe' = [op |-> "new", client |-> Len(clients) + 1]
    /\ MutatorFrame

\* lines 1012-1018: new ZogHttpClient({ ...this.config, ...config }, ...): the
\* child gets the parent's headers object unless the override has headers
Create(parent, config) ==
    /\ Len(clients) < MaxClients
    /\ config.headers.given => Len(heap) < MaxObjects
    /\ heap' = IF config.headers.given THEN Append(heap, config.headers.map) ELSE heap
    /\ clients' = Append(clients,
          [baseURL |-> IF config.baseURL = Unset THEN clients[parent].baseURL
                       ELSE Chars(config.baseURL),
           timeout |-> IF config.timeout = Unset THEN clients[parent].timeout
                       ELSE config.timeout,
           headers |-> IF config.headers.given THEN Len(heap) + 1
                       ELSE clients[parent].headers])
    /\ probe' = [op |-> "create", client |-> Len(clients) + 1]
    /\ MutatorFrame

\* the state after new ZogHttpClient(config): the module's default headers
\* object and the one of config
InitConfig(configs) ==
    \E config \in configs :
        /\ heap = IF config.headers.given THEN <<DefaultHeaders, config.headers.map>>
                  ELSE <<DefaultHeaders>>
        /\ clients = <<Construct(config, 2)>>

(* ---- SpecConfig: one request() call of a client whose config is changed ---- *)

ConfigOptions ==
    {[url |-> "/a", method |-> m, retries |-> 0, headers |-> NotGiven,
      body |-> Missing] :
         m \in {"GET", "get", "PURGE"}}
    \cup {[url |-> "/a", method |-> "GET", retries |-> 0, headers |-> Given(h),
           body |-> Missing] :
              h \in {EmptyHeaders, HeaderObj(Absent, Absent, "9")}}

InitSpecConfig ==
    /\ InitClient
    /\ InitInterceptors(Kinds({"ok"}, {"none"}), {}, 1)
    /\ owners = [request |-> OwnersOf(interceptors.request),
                 response |-> OwnersOf(interceptors.response)]
    /\ InitConfig(ClientConfigs)
    /\ tracker = IdleTracker
    /\ xfer = IdleTransfer
    /\ probe = NoCall

NextConfig ==
    \/ \E o \in ConfigOptions : nextId <= 1 /\ Request(o)
    \/ \E i \in ReqIds : StepRequestInterceptor(i)
    \/ \E i \in ReqIds : StartTransfer(i)
    \/ Mutators(1)

SpecConfig == InitSpecConfig /\ [][NextConfig]_vars

(* ---- SpecClients: several clients and their mutators ---- *)

InitClients ==
    /\ InitClient
    /\ interceptors = [request |-> <<>>, response |-> <<>>]
    /\ owners = [request |-> OwnersOf(<<>>), response |-> OwnersOf(<<>>)]
    /\ InitConfig(ClientConfigs)
    /\ tracker = IdleTracker
    /\ xfer = IdleTransfer
    /\ probe = NoCall

NextClients ==
    \/ \E config \in ClientConfigs : NewClient(config)
    \/ \E parent \in 1..Len(clients), config \in ClientConfigs : Create(parent, config)
    \/ \E c \in 1..Len(clients) : Mutators(c)

SpecClients == InitClients /\ [][NextClients]_vars

(* ---- SpecBuild: buildURL called on its own ---- *)

ParamKeys == {"k", "a b", "x"}

ParamValues ==
    {ParamValue("undefined", <<>>, <<>>), ParamValue("null", <<>>, <<>>),
     ParamValue("scalar", Chars("1"), <<>>), ParamValue("scalar", Chars("a&b"), <<>>),
     ParamValue("scalar", <<>>, <<>>),
     ParamValue("list", <<>>, <<>>),
     ParamValue("list", <<>>, <<Chars("x"), Chars("y")>>)}

\* Object.entries(params): no key twice
ParamsObjects ==
    UNION {{ps \in [1..n -> [key : {Chars(k) : k \in ParamKeys}, value : ParamValues]] :
               \A a, b \in 1..n : a # b => ps[a].key # ps[b].key} : n \in 0..MaxParams}

InitBuild ==
    /\ InitClient
    /\ interceptors = [request |-> <<>>, response |-> <<>>]
    /\ owners = [request |-> OwnersOf(<<>>), response |-> OwnersOf(<<>>)]
    /\ heap = <<DefaultHeaders>>
    /\ \E b \in {Unset, "https://h", "/v?"} :
          clients = <<Construct([NoClientConfig EXCEPT !.baseURL = b], DefaultRef)>>
    /\ tracker = IdleTracker
    /\ xfer = IdleTransfer
    /\ \E u \in {"/a", "/a?x", "http://x/a"}, ps \in ParamsObjects :
          probe = [op |-> "buildURL", url |-> Chars(u), params |-> ps,
                   done |-> FALSE, result |-> <<>>]

BuildURLCall ==
    /\ probe.op = "buildURL"
    /\ ~probe.done
    /\ probe' = [probe EXCEPT !.done = TRUE,
                              !.result = BuildURL(clients[1].baseURL, probe.url,
                                                  probe.params)]
    /\ UNCHANGED <<lifecycleVars, interceptors, owners, configVars, tracker, xfer>>

NextBuild == BuildURLCall

SpecBuild == InitBuild /\ [][NextBuild]_vars

(* ---- SpecVerbs: the verb shortcuts and the body request() hands to fetch ---- *)

Verbs == {"get", "post", "put", "patch", "delete", "head", "options"}

\* the shortcuts with a positional body: lines 599-625
BodyVerbs == {"post", "put", "patch"}

\* lines 588-653: the method each shortcut writes
MethodOf(verb) ==
    CASE verb = "get" -> "GET"
      [] verb = "post" -> "POST"
      [] verb = "put" -> "PUT"
      [] verb = "patch" -> "PATCH"
      [] verb = "delete" -> "DELETE"
      [] verb = "head" -> "HEAD"
      [] verb = "options" -> "OPTIONS"

\* the values of a body: undefined, a string, a plain object, a FormData
BodyValues == {"undefined", "text", "object", "formdata"}

\* `body = {}`: the default of the positional parameter, taken when the
\* argument is undefined
DefaultBody(body) == IF body = "undefined" THEN "emptyObject" ELSE body

\* a shortcut that spreads the caller's options over its own keys
VerbOptionsSpreadLast(verb, url, body, options) ==
    [options EXCEPT
        !.method = IF options.method = Missing THEN MethodOf(verb) ELSE options.method,
        !.url = url,
        !.body = IF options.body # Missing \/ verb \notin BodyVerbs
                 THEN options.body ELSE DefaultBody(body)]

\* lines 588-653: the object a shortcut passes to request():
\* { ...options, method, url } or { ...options, method, url, body }
VerbOptions(verb, url, body, options) ==
    [options EXCEPT !.method = MethodOf(verb),
                    !.url = url,
                    !.body = IF verb \in BodyVerbs THEN DefaultBody(body) ELSE options.body]

\* the options argument of a shortcut: any method and body keys of its own
VerbArguments ==
    [url : {Missing}, method : {Missing, "GET", "POST", "purge"}, retries : {0},
     headers : {NotGiven}, body : {Missing} \cup BodyValues]

InitVerbs ==
    /\ InitClient
    /\ InitInterceptors(Kinds({"ok", "methodGet", "methodPost"}, {"none"}), {},
                        MaxInterceptors)
    /\ owners = [request |-> OwnersOf(interceptors.request),
                 response |-> OwnersOf(interceptors.response)]
    /\ heap = <<DefaultHeaders>>
    /\ clients = <<Construct(NoClientConfig, DefaultRef)>>
    /\ tracker = IdleTracker
    /\ xfer = IdleTransfer
    /\ probe = NoCall

\* lines 588-653: one shortcut call: request() with the object the shortcut built
VerbCall(verb, url, body, options) ==
    /\ nextId \in ReqIds
    /\ req[nextId].pc = "idle"
    /\ LET passed == VerbOptions(verb, url, body, options) IN
       /\ abortControllers' = abortControllers \cup {nextId}
       /\ req' = [req EXCEPT ![nextId] =
                     ContinueRequest(
                         [@ EXCEPT !.pc = "reqInterceptors",
                                   !.config = MergeConfig(clients[1], passed),
                                   !.issued = [baseURL |-> clients[1].baseURL,
                                               headers |-> HeadersOf(1),
                                               options |-> passed.headers,
                                               config |-> MergeConfig(clients[1], passed)],
                                   !.idx = 1],
                         interceptors.request)]
       /\ probe' = [op |-> "verb", id |-> nextId, verb |-> verb, body |-> body,
                    options |-> options, passed |-> passed]
    /\ nextId' = nextId + 1
    /\ UNCHANGED <<owners, configVars, tracker, xfer, interceptors, clientState>>

NextVerbs ==
    \/ \E verb \in Verbs, body \in BodyValues, options \in VerbArguments :
           nextId <= 1 /\ VerbCall(verb, "/a", body, options)
    \/ \E i \in ReqIds : StepRequestInterceptor(i)
    \/ \E i \in ReqIds : StartTransfer(i)

SpecVerbs == InitVerbs /\ [][NextVerbs]_vars

(* ---- SpecRecover: one request() call through request interceptors that may throw ---- *)

InitRecover ==
    /\ InitClient
    /\ InitInterceptors(Kinds({"mark", "undefined", "throwError"},
                              {"none", "value", "undefined", "rethrow"}), {}, MaxChain)
    /\ InitRest

NextRecover ==
    \/ \E o \in Options : nextId <= 1 /\ Request(o)
    \/ \E i \in ReqIds : StepRequestInterceptor(i)
    \/ \E i \in ReqIds : StartTransfer(i)

SpecRecover == InitRecover /\ [][NextRecover]_vars

(* ---- SpecResponse: one request() call and its response interceptors ---- *)

InitResponse ==
    /\ InitClient
    /\ InitInterceptors(Kinds({"mark"}, {"none"}), Kinds({"ok", "throwError"},
                                  {"none", "value", "undefined", "rethrow", "throw"}),
                        MaxChain)
    /\ InitRest

NextResponse == RequestSteps(1, Options, JsonOutcomes)

SpecResponse == InitResponse /\ [][NextResponse]_vars

(* ---- SpecCancel: one request() call, the timeout and the cancel calls ---- *)

InitCancel ==
    /\ InitClient
    /\ InitInterceptors(Kinds({"ok", "throwError"}, {"none"}),
                        Kinds({"ok", "throwError"}, {"none", "value", "undefined"}),
                        MaxInterceptors)
    /\ InitRest

NextCancel ==
    \/ RequestSteps(1, Options, JsonOutcomes)
    \/ Cancels

SpecCancel == InitCancel /\ [][NextCancel]_vars

(* ---- SpecRetry: one request() call whose every step is eventually taken ---- *)

InitRetry ==
    /\ InitClient
    /\ InitInterceptors(Kinds({"ok"}, {"none"}),
                        Kinds({"ok", "throwTypeError"}, {"none", "value"}),
                        MaxInterceptors)
    /\ InitRest

NextRetry == RequestSteps(1, Options, JsonOutcomes)

\* the steps of request i that an interceptor handler, the transport or the
\* retry timer takes by returning, throwing, answering or elapsing
Advance(i) ==
    \/ StepRequestInterceptor(i)
    \/ StartTransfer(i)
    \/ \E o \in JsonOutcomes : FetchSettle(i, o)
    \/ FetchAbort(i)
    \/ ParseBody(i)
    \/ RetryTimer(i)
    \/ StepResponseInterceptor(i)
    \/ ResolveResponse(i)
    \/ StepErrorInterceptor(i)
    \/ RejectError(i)

SpecRetry == InitRetry /\ [][NextRetry]_vars /\ \A i \in ReqIds : WF_vars(Advance(i))

(* ---- SpecChain: one request() call through its request interceptors ---- *)

InitChain ==
    /\ InitClient
    /\ InitInterceptors(Kinds({"none", "ok", "mark"}, {"none"}), {}, MaxChain)
    /\ InitRest

NextChain ==
    \/ \E o \in Options : nextId <= 1 /\ Request(o)
    \/ \E i \in ReqIds : StepRequestInterceptor(i)
    \/ \E i \in ReqIds : StartTransfer(i)

SpecChain == InitChain /\ [][NextChain]_vars

(* ---- SpecRemove: interceptors removed while a request runs its chain ---- *)

\* splice() changes the array the for...of loop of a running chain reads, so
\* the loop's index (req[i].idx) meets the list as it is at each step
InitRemove ==
    /\ InitClient
    /\ InitInterceptors(Kinds({"mark"}, {"none"}), Kinds({"ok"}, {"rethrow"}), MaxChain)
    /\ InitRest

NextRemove ==
    \/ RequestSteps(1, Options, JsonOutcomes)
    \/ \E id \in 0..(MaxChain - 1) : RemoveInterceptor("request", id)
    \/ \E id \in 0..(MaxChain - 1) : RemoveInterceptor("response", id)
    \/ ClearInterceptors

SpecRemove == InitRemove /\ [][NextRemove]_vars

(* ---- class EventBus of the utilities kit: src/unnamed/part_000, lines 489-508 ---- *)

\* The bus is held in `probe`, for one event name:
\*   sets   the Set objects made for the event, in creation order. A Set is
\*          the sequence of the functions added to it, in insertion order; a
\*          deleted one keeps its place with present = FALSE, as
\*          Set.prototype.forEach passes over deleted entries and reaches
\*          entries added meanwhile. `calls` counts the invocations of the
\*          function
\*   cur    the Set this.events holds for the event, 0 when it holds none:
\*          clear() takes the Set out of the Map, and a forEach under way
\*          goes on over the Set it was called on
\*   stack  the emit calls being delivered, innermost last: forEach of Set
\*          `set` is inside the function at position `pos`. The function of
\*          the innermost call is the code that runs; with an empty stack the
\*          caller of the bus runs
\*   emits  the emit calls made
HandlerIds == 1..MaxHandlers

\* a function in a Set: the handler itself when it was given to on(), the
\* wrapper `once` of line 503 around it when it was given to once()
BusEntry(h, once) == [handler |-> h, once |-> once, present |-> TRUE, calls |-> 0]

\* the next entry forEach visits after position pos, 0 at the end of the Set
NextEntry(entries, pos) ==
    IF \E k \in (pos + 1)..Len(entries) : entries[k].present
    THEN CHOOSE k \in (pos + 1)..Len(entries) :
             entries[k].present /\ \A j \in (pos + 1)..(k - 1) : ~entries[j].present
    ELSE 0

\* the position of handler h in the Set, 0 if the Set does not have it; a
\* wrapper of h is another function
PositionOf(entries, h) ==
    IF \E k \in 1..Len(entries) :
           entries[k].present /\ ~entries[k].once /\ entries[k].handler = h
    THEN CHOOSE k \in 1..Len(entries) :
             entries[k].present /\ ~entries[k].once /\ entries[k].handler = h
    ELSE 0

\* lines 493-494: the Set is made when the Map has none, and Set.add leaves a
\* Set that has the function as it is
Add(p, e) ==
    IF p.cur = 0 THEN [p EXCEPT !.sets = Append(@, <<e>>), !.cur = Len(p.sets) + 1]
    ELSE IF ~e.once /\ PositionOf(p.sets[p.cur], e.handler) # 0 THEN p
    ELSE [p EXCEPT !.sets[p.cur] = Append(@, e)]

\* line 498: this.events.get(event)?.delete(fn), for the function at position
\* k of Set s; nothing happens when the Map holds another Set or none
Delete(p, s, k) ==
    IF s # 0 /\ k # 0 /\ p.cur = s THEN [p EXCEPT !.sets[s][k].present = FALSE] ELSE p

\* line 500: the forEach of the innermost emit goes on after position pos of
\* its Set s: it calls the next function, or ends, and emit returns
Forward(p, s, pos) ==
    LET k == NextEntry(p.sets[s], pos)
        top == Len(p.stack) IN
    IF k = 0 THEN [p EXCEPT !.stack = SubSeq(@, 1, top - 1)]
    ELSE [p EXCEPT !.stack[top].pos = k, !.sets[s][k].calls = @ + 1]

\* there is room for one more function in the Set an on() call adds to
Room(p) ==
    IF p.cur = 0 THEN Len(p.sets) < MaxSets ELSE Len(p.sets[p.cur]) < MaxEntries

InitBus ==
    /\ InitClient
    /\ interceptors = [request |-> <<>>, response |-> <<>>]
    /\ owners = [request |-> OwnersOf(<<>>), response |-> OwnersOf(<<>>)]
    /\ heap = <<DefaultHeaders>>
    /\ clients = <<Construct(NoClientConfig, DefaultRef)>>
    /\ tracker = IdleTracker
    /\ xfer = IdleTransfer
    /\ probe = [op |-> "bus", sets |-> <<>>, cur |-> 0, stack |-> <<>>, emits |-> 0]

BusFrame == UNCHANGED <<lifecycleVars, interceptors, owners, configVars, tracker, xfer>>

\* lines 492-496: on(event, handler)
On(h) ==
    /\ probe.op = "bus"
    /\ Room(probe)
    /\ probe' = Add(probe, BusEntry(h, FALSE))
    /\ BusFrame

\* line 498: off(event, handler), also what the function on() returns does
Off(h) ==
    /\ probe.op = "bus"
    /\ probe' = IF probe.cur = 0 THEN probe
                ELSE Delete(probe, probe.cur, PositionOf(probe.sets[probe.cur], h))
    /\ BusFrame

\* lines 502-505: once(event, handler) gives a new wrapper to on()
Once(h) ==
    /\ probe.op = "bus"
    /\ Room(probe)
    /\ probe' = Add(probe, BusEntry(h, TRUE))
    /\ BusFrame

\* line 507: clear(event), or clear()
Clear ==
    /\ probe.op = "bus"
    /\ probe' = [probe EXCEPT !.cur = 0]
    /\ BusFrame

\* line 500: emit(event), up to the call of the first function of the Set;
\* it returns at once when the Map holds no Set or the Set is empty
Emit ==
    /\ probe.op = "bus"
    /\ probe.emits < MaxEmits
    /\ probe' = IF probe.cur = 0 THEN [probe EXCEPT !.emits = @ + 1]
                ELSE Forward([probe EXCEPT !.emits = @ + 1,
                                           !.stack = Append(@, [set |-> probe.cur,
                                                                pos |-> 0])],
                             probe.cur, 0)
    /\ BusFrame

\* lines 500 and 503: the handler that runs returns; a wrapper goes on to
\* off(event, once); forEach takes the next function
HandlerReturns ==
    /\ probe.op = "bus"
    /\ probe.stack # <<>>
    /\ LET f == probe.stack[Len(probe.stack)]
           e == probe.sets[f.set][f.pos] IN
       probe' = Forward(IF e.once THEN Delete(probe, f.set, f.pos) ELSE probe,
                        f.set, f.pos)
    /\ BusFrame

\* lines 500 and 503: the handler that runs throws: its wrapper does not reach
\* off, and the error leaves forEach and emit, and every handler under way
\* that does not catch it: the handlers of the first n emit calls go on
HandlerThrows(n) ==
    /\ probe.op = "bus"
    /\ n < Len(probe.stack)
    /\ probe' = [probe EXCEPT !.stack = SubSeq(@, 1, n)]
    /\ BusFrame

NextBus ==
    \/ \E h \in HandlerIds : On(h)
    \/ \E h \in HandlerIds : Off(h)
    \/ \E h \in HandlerIds : Once(h)
    \/ Clear
    \/ Emit
    \/ HandlerReturns
    \/ \E n \in 0..(MaxEmits - 1) : HandlerThrows(n)

SpecBus == InitBus /\ [][NextBus]_vars

(* ======================= the claims ======================= *)

Issued(i) == req[i].pc # "idle"
Settled(i) == req[i].pc = "done"
InFlight(i) == req[i].pc \in {"fetching", "parsing", "retryWait", "respInterceptors", "errInterceptors"}

Is2xx(o) == o.kind = "response" /\ ResponseOk(o.status)
Is4xx(o) == o.kind = "response" /\ o.status >= 400 /\ o.status < 500
Retryable(o) == o.kind = "network" \/ (o.kind = "response" /\ o.status >= 500)

\* C1: once every request() call issued so far has settled (by success, failure
\* or cancellation), state.pendingRequests is exactly 0.
C1_PendingReturnsToZero ==
    (\A i \in ReqIds : Issued(i) => Settled(i)) => pendingRequests = 0

\* C2: state.pendingRequests is never negative.
C2_PendingNeverNegative == pendingRequests >= 0

\* C3: whenever a request() call has passed its request interceptors and has
\* not settled yet, state.loading is true.
C3_LoadingWhileInFlight ==
    (\E i \in ReqIds : InFlight(i)) => loading = TRUE

\* C4: with retries = r and neither timeout nor cancellation, when the first
\* k <= r attempts each end in a 5xx response (whatever its content type and
\* body) or in a network failure, the request goes on to attempt k + 1; and
\* when that attempt returns a 2xx response (read without error), request()
\* resolves with that response after exactly k + 1 attempts and k waits.
\* Stated for a client without response interceptors.
C4_RetriesUntilSuccess ==
    \A i \in ReqIds :
        LET r == req[i]
            n == Len(r.hist) IN
        (/\ Settled(i) /\ ~r.signal /\ n >= 1
         /\ interceptors.response = <<>>
         /\ n - 1 <= r.config.retries
         /\ \A k \in 1..(n - 1) : Retryable(r.hist[k]))
        => /\ Retryable(r.hist[n]) => n = r.config.retries + 1
           /\ (Is2xx(r.hist[n]) /\ ParseData(r.hist[n]) # "SyntaxError")
                => /\ r.outcome = "resolved"
                   /\ r.result = ResponseObj(r.hist[n].status, r.hist[n].statusText,
                                             ParseData(r.hist[n]))
                   /\ r.attempts = n
                   /\ r.waits = n - 1

\* C5: a 4xx response is never retried: the attempt that returned it is the
\* request's last one (so a request whose first answer is 4xx makes exactly one
\* attempt and waits no retryDelay, whatever retries is), and the request then
\* resolves only with the value of a recovering rejected handler, and rejects
\* otherwise.
C5_ClientErrorNotRetried ==
    \A i \in ReqIds :
        LET r == req[i] IN
        \A n \in 1..Len(r.hist) :
            Is4xx(r.hist[n])
            => /\ n = Len(r.hist)
               /\ r.attempts = n
               /\ r.waits = n - 1
               /\ Settled(i) => /\ r.outcome \in {"resolved", "rejected"}
                                /\ (r.outcome = "resolved") <=> r.recovered
                                /\ r.recovered => r.result = HandlerValue

\* a request with retries left got a 404 as its first answer and rejected
C5_Witness ==
    \E i \in ReqIds :
        /\ Settled(i) /\ req[i].config.retries >= 1
        /\ Len(req[i].hist) = 1 /\ req[i].hist[1].status = 404
        /\ req[i].outcome = "rejected" /\ req[i].result.status = 404
        /\ req[i].attempts = 1 /\ req[i].waits = 0

\* C6: once an interceptor handler has thrown, the transfer is not performed
\* again for that request() call.
C6_InterceptorErrorNeverRetried ==
    [][\A i \in ReqIds :
         (req[i].threw /\ req[i].attempts >= 1) => req'[i].attempts = req[i].attempts]_vars

\* C7: when the timeout fires before the transfer has completed, request()
\* rejects with HttpError 408 'Request timeout', and from then on no attempt
\* returns a response, no retry wait starts and the request never resolves.
C7_TimeoutTerminal ==
    [][\A i \in ReqIds :
         /\ req[i].timedOut => /\ req'[i].hist = req[i].hist
                               /\ req'[i].waits = req[i].waits
                               /\ req'[i].outcome # "resolved"
         /\ (req'[i].timedOut /\ req'[i].pc = "done")
              => /\ req'[i].outcome = "rejected"
                 /\ req'[i].result = HttpError("Request timeout", 408)]_vars

\* the timeout fired during the transfer of a request that had retries left
C7_Witness ==
    \E i \in ReqIds :
        /\ Settled(i) /\ req[i].timedOut /\ req[i].retriesLeft >= 1
        /\ req[i].result = HttpError("Request timeout", 408)

\* C8: after a request() call has settled, its id is no longer in the
\* abortControllers registry.
C8_RegistryReleased ==
    \A i \in ReqIds : Settled(i) => i \notin abortControllers

\* C9: a rejection caused by the transfer itself (no interceptor threw, no
\* handler recovered; here with no abort either) is an HttpError whose status
\* is 0 when no response was received and the response's status otherwise.
C9_RejectionIsHttpError ==
    \A i \in ReqIds :
        LET r == req[i]
            n == Len(r.hist) IN
        (Settled(i) /\ r.outcome = "rejected" /\ ~r.threw /\ ~r.signal /\ n >= 1)
        => /\ r.result.name = "HttpError"
           /\ r.result.status = (IF r.hist[n].kind = "network" THEN 0 ELSE r.hist[n].status)

\* C10: when a request() call that reached its transfer rejects, state.error
\* holds the failure's message; and state.error changes afterwards only by
\* being cleared to null.
C10_ErrorHoldsLastFailure ==
    [][/\ \A i \in ReqIds :
            (req[i].pc # "done" /\ req'[i].pc = "done" /\ req'[i].outcome = "rejected"
             /\ req'[i].attempts >= 1)
            => stateError' = req'[i].result.message
       /\ (stateError # "null" /\ stateError' # stateError) => stateError' = "null"]_vars

(* ---- C11: the request interceptor chain ---- *)

\* the ids of the entries among the first n of list l whose fulfilled handler
\* changes the config, in list order
RECURSIVE MarkIds(_, _)
MarkIds(l, n) ==
    IF n = 0 THEN <<>>
    ELSE IF l[n].fulfilled = "mark" THEN Append(MarkIds(l, n - 1), l[n].id)
    ELSE MarkIds(l, n - 1)

\* the entries among the first n of list l that have a fulfilled handler, each
\* with the config the handlers before it produce
RECURSIVE CallsOf(_, _)
CallsOf(l, n) ==
    IF n = 0 THEN <<>>
    ELSE IF l[n].fulfilled = "none" THEN CallsOf(l, n - 1)
    ELSE Append(CallsOf(l, n - 1), [id |-> l[n].id, got |-> MarkIds(l, n - 1)])

\* C11: for one request over an unchanging list of request interceptors whose
\* handlers return, the fulfilled handlers are called in registration order,
\* each exactly once and each with the config the previous one returned, and
\* the config handed to the transfer is the output of the last one.
C11_RequestChainInOrder ==
    \A i \in ReqIds :
        LET r == req[i]
            l == interceptors.request IN
        /\ (r.pc = "reqInterceptors" /\ r.wait = "fulfilled") =>
              /\ r.idx - 1 \in 1..Len(l)
              /\ r.entry = l[r.idx - 1]
              /\ r.ran = CallsOf(l, r.idx - 1)
              /\ r.marks = MarkIds(l, r.idx - 2)
        /\ (r.pc = "reqInterceptors" /\ r.wait = "end") =>
              /\ r.ran = CallsOf(l, Len(l))
              /\ r.marks = MarkIds(l, Len(l))
        /\ r.pc = "fetching" =>
              /\ r.ran = CallsOf(l, Len(l))
              /\ r.sent = MarkIds(l, Len(l))

\* two interceptors A then B that both change the config: B was given A's
\* change and the transfer got both
C11_Witness ==
    \E i \in ReqIds :
        /\ req[i].pc = "fetching"
        /\ Len(interceptors.request) = 2
        /\ req[i].ran = <<[id |-> 0, got |-> <<>>], [id |-> 1, got |-> <<0>>]>>
        /\ req[i].sent = <<0, 1>>

(* ---- C12: removing an interceptor by the id its add call returned ---- *)

\* sequence s without the add call c
Without(s, c) == SelectSeq(s, LAMBDA x : x # c)

\* C12: a remove call given the id that an add call returned, while that add
\* call's entry is in the list, takes out that entry and no other, and keeps
\* the rest in order.
C12_RemoveTakesOwnEntry ==
    probe.op = "remove" =>
        \A c \in 1..Len(owners[probe.type].ids) :
            (owners[probe.type].ids[c] = probe.id
                /\ \E k \in 1..Len(probe.before) : probe.before[k] = c)
            => probe.after = Without(probe.before, c)

(* ---- C14: buildURL ---- *)

\* the pairs one entry of params stands for
PairsOfEntry(e) ==
    CASE e.value.kind \in {"undefined", "null"} -> <<>>
      [] e.value.kind = "list" ->
            [j \in 1..Len(e.value.items) |-> <<e.key, e.value.items[j]>>]
      [] OTHER -> <<<<e.key, e.value.s>>>>

\* the pairs of the first n entries, in key order
RECURSIVE PairsOf(_, _)
PairsOf(params, n) ==
    IF n = 0 THEN <<>> ELSE PairsOf(params, n - 1) \o PairsOfEntry(params[n])

\* key=value texts of the first n pairs, joined with '&'
RECURSIVE Joined(_, _)
Joined(pairs, n) ==
    LET text == Encode(pairs[n][1]) \o <<"=">> \o Encode(pairs[n][2]) IN
    IF n = 1 THEN text ELSE Joined(pairs, n - 1) \o <<"&">> \o text

\* C14: buildURL(url, params) is url itself when url starts with 'http' and
\* baseURL + url otherwise, followed by the query string of params in key
\* order: one pair per scalar, one pair per list element in list order, none
\* for undefined or null; joined with '?' when the URL has no '?' yet and with
\* '&' otherwise; nothing is appended when there is no pair.
C14_BuildURL ==
    (probe.op = "buildURL" /\ probe.done) =>
        LET base == IF StartsWith(probe.url, Chars("http")) THEN probe.url
                    ELSE clients[1].baseURL \o probe.url
            pairs == PairsOf(probe.params, Len(probe.params)) IN
        probe.result =
            IF pairs = <<>> THEN base
            ELSE base \o (IF Includes(base, "?") THEN <<"&">> ELSE <<"?">>)
                      \o Joined(pairs, Len(pairs))

\* baseURL '/v?', url '/a', params {k: ['x', 'y'], x: null} gives '/v?/a&k=x&k=y'
C14_Witness ==
    /\ probe.op = "buildURL"
    /\ probe.done
    /\ Len(probe.params) = 2
    /\ probe.params[1].value.kind = "list"
    /\ probe.params[2].value.kind = "null"
    /\ probe.result = <<"/", "v", "?", "/", "a", "&", "k", "=", "x", "&", "k", "=", "y">>

(* ---- C13: the headers of a request ---- *)

\* the right-biased merge of the three layers
Layered(defaults, instance, perCall) == Spread(Spread(defaults, instance), perCall)

\* C13: the headers request() uses are the key-wise merge of the builtin
\* defaults, the client's instance headers and the per-call headers, the later
\* layer winning: every key of any layer is present.
C13_HeadersAreLayeredMerge ==
    \A i \in ReqIds :
        req[i].pc # "idle" =>
            req[i].issued.config.headers =
                Layered(DefaultHeaders, req[i].issued.headers, req[i].issued.options.map)

(* ---- C15: the method of a request ---- *)

SupportedMethods == {"GET", "POST", "PUT", "PATCH", "DELETE", "HEAD", "OPTIONS"}

\* C15: a request whose method is not one of the seven verbs, in any letter
\* case, never starts a transfer and leaves pendingRequests alone; a supported
\* method is sent in uppercase.
C15_UnsupportedMethodRejected ==
    \A i \in ReqIds :
        LET r == req[i] IN
        r.pc # "idle" =>
            IF ToUpperCase(r.issued.config.method) \in SupportedMethods
            THEN r.pc = "fetching" => r.fetch.method \in SupportedMethods
            ELSE r.pc # "fetching" /\ pendingRequests = 0

(* ---- C16: mutators and the requests already issued ---- *)

\* C16: the headers, URL and timeout a request uses are those of the moment
\* request() was called, whatever mutators run while it is suspended in its
\* request interceptors.
C16_IssuedRequestKeepsConfig ==
    \A i \in ReqIds :
        LET r == req[i] IN
        r.pc = "fetching" =>
            /\ r.fetch.headers = r.issued.config.headers
            /\ r.config.timeout = r.issued.config.timeout
            /\ r.fetch.url = BuildURL(r.issued.baseURL, Chars(r.issued.config.url), <<>>)

(* ---- C17: clients share no mutable configuration ---- *)

\* the headers, base URL and timeout a client would use
Effective(c) ==
    [headers |-> HeadersOf(c), baseURL |-> clients[c].baseURL,
     timeout |-> clients[c].timeout]

\* C17: a mutator call on one client leaves the effective headers, base URL
\* and timeout of every other client as they were.
C17_ClientsShareNothing ==
    [][probe'.op = "mutator" =>
          \A d \in 1..Len(clients) : d # probe'.client => Effective(d)' = Effective(d)]_vars

(* ---- C18: the promise of an upload ---- *)

\* C18: when the handler of the terminal event of an upload that was sent has
\* run to its end (with callbacks that return), the promise has been settled
\* exactly once:
\* resolved with the intercepted response after a 2xx load, resolved with the
\* recovered value when an error handler recovered a non-2xx load, rejected
\* otherwise; and the upload was sent once.
C18_UploadSettlesOnce ==
    (xfer.kind = "upload" /\ xfer.pc = "ended" /\ xfer.sends > 0
        /\ xfer.onComplete = "returns" /\ xfer.onError = "returns")
    => /\ xfer.settles = 1
       /\ xfer.sends = 1
       /\ xfer.promise \in {"resolved", "rejected"}
       /\ xfer.recovered => xfer.promise = "resolved" /\ xfer.value = HandlerValue

(* ---- C19: the status of a tracker ---- *)

\* C19: within one transfer, once the tracker's status is 'completed' or
\* 'error' it never changes again.
C19_TrackerStatusTerminal ==
    [][tracker.status \in {"completed", "error"} => tracker'.status = tracker.status]_vars

(* ---- C20: the progress of a tracker ---- *)

\* C20: in every state of a tracker, progress is an integer from 0 to 100.
C20_ProgressInRange == tracker.progress \in 0..100

(* ---- C21: a tracker after reset ---- *)

\* the integer nearest to 100 * loaded / total, halves upwards
Percent(loaded, total) ==
    CHOOSE p \in 0..100 : /\ 2 * total * p <= 200 * loaded + total
                          /\ 200 * loaded + total < 2 * total * (p + 1)

\* p is an integer nearest to 100 * loaded / total (at an exact half, either
\* neighbour)
Nearest(p, loaded, total) ==
    /\ 2 * total * p <= 200 * loaded + total
    /\ 200 * loaded - total <= 2 * total * p

\* the sequence reset(), start(T), update(L, T) with 0 <= L <= T and T > 0 has
\* just been called
AfterResetStartUpdate ==
    probe.phase = 3 /\ probe.total > 0 /\ probe.loaded <= probe.total

\* C21 as stated: whatever was called on a tracker before, reset() then
\* start(T) then update(L, T) with 0 <= L <= T and T > 0 leaves progress =
\* round(100 L / T), loaded = L, total = T, status 'uploading' and no error;
\* and a second reset() leaves what the first one left.
C21_ResetThenStartUpdateExact ==
    /\ AfterResetStartUpdate =>
          tracker = [progress |-> Percent(probe.loaded, probe.total),
                     loaded |-> probe.loaded, total |-> probe.total,
                     status |-> "uploading", error |-> "null"]
    /\ (probe.last = "reset" /\ probe.before = "reset") => tracker = probe.prev

\* C21 amended: the same, with progress an integer nearest to 100 L / T, which
\* at an exact half may be the lower neighbour.
C21_ResetThenStartUpdate ==
    /\ AfterResetStartUpdate =>
          /\ tracker.progress \in 0..100
          /\ Nearest(tracker.progress, probe.loaded, probe.total)
          /\ tracker.loaded = probe.loaded
          /\ tracker.total = probe.total
          /\ tracker.status = "uploading"
          /\ tracker.error = "null"
    /\ (probe.last = "reset" /\ probe.before = "reset") => tracker = probe.prev

\* a tracker that had failed is reset, started with 40 and updated with 23 of 40
C21_Witness ==
    /\ probe.phase = 3
    /\ probe.from = "error"
    /\ probe.total = 40
    /\ probe.loaded = 23
    /\ tracker.progress = 57
    /\ tracker.status = "uploading"

(* ---- C22: a download without Content-Length ---- *)

\* the bytes of the first n chunks of the stream, in arrival order
RECURSIVE BytesOf(_, _)
BytesOf(stream, n) == IF n = 0 THEN <<>> ELSE BytesOf(stream, n - 1) \o stream[n]

\* the sum of the lengths of the first n chunks
RECURSIVE LengthOf(_, _)
LengthOf(stream, n) == IF n = 0 THEN 0 ELSE LengthOf(stream, n - 1) + Len(stream[n])

\* C22: while a download whose response announced no Content-Length is under
\* way, the tracker's progress is 0; when it succeeds its buffer holds the
\* bytes of every chunk in arrival order, as many as the chunk lengths add up to.
C22_DownloadWithoutLength ==
    (xfer.kind = "download" /\ xfer.total = 0) =>
        /\ xfer.pc \in {"fetching", "reading"} => tracker.progress = 0
        /\ (xfer.pc = "ended" /\ xfer.promise = "resolved") =>
              /\ xfer.blob = BytesOf(xfer.arrived, Len(xfer.arrived))
              /\ Len(xfer.blob) = LengthOf(xfer.arrived, Len(xfer.arrived))

\* a download without Content-Length that delivered two chunks and succeeded
C22_Witness ==
    /\ xfer.kind = "download"
    /\ xfer.total = 0
    /\ xfer.promise = "resolved"
    /\ Len(xfer.arrived) = 2
    /\ xfer.blob = <<1, 2>>

(* ---- C23: request interceptors that return nothing or throw ---- *)

\* request i awaits a handler of a request interceptor entry
AtEntry(i) ==
    /\ req[i].pc = "reqInterceptors"
    /\ req[i].wait \in {"fulfilled", "rejected"}

\* that entry
EntryOf(i) == req[i].entry

\* the handler request i awaits settles in this step
Settles(i) ==
    <<req'[i].pc, req'[i].wait, req'[i].idx>> # <<req[i].pc, req[i].wait, req[i].idx>>

\* the chain of request i goes on with the next entry, or ends after the last
ChainContinues(i) ==
    /\ req'[i].pc = "reqInterceptors"
    /\ req'[i].wait \in {"fulfilled", "end"}
    /\ req'[i].idx >= req[i].idx
    /\ req'[i].wait = "fulfilled" => req'[i].idx > req[i].idx

\* the rejected handler of the entry of request i is called with the error
RejectedCalled(i) ==
    /\ req'[i].pc = "reqInterceptors"
    /\ req'[i].wait = "rejected"
    /\ req'[i].entry = req[i].entry

\* the config of request i, with what the interceptors left on it
ConfigOf(r) == [config |-> r.config, marks |-> r.marks]

\* C23 as stated: a fulfilled handler that returns a falsy value leaves the
\* config as it was; when fulfilled throws and the entry has a rejected
\* handler, that handler is called, and when it returns its return value
\* becomes the config (no config at all when it returns undefined) and the
\* chain goes on with the next entry.
C23_RejectedValueBecomesConfig ==
    [][\A i \in ReqIds :
          (AtEntry(i) /\ Settles(i)) =>
              LET e == EntryOf(i)
                  w == req[i].wait IN
              /\ (w = "fulfilled" /\ e.fulfilled = "undefined") =>
                    ConfigOf(req'[i]) = ConfigOf(req[i]) /\ ChainContinues(i)
              /\ (w = "fulfilled" /\ Throws(e.fulfilled) /\ e.rejected # "none") =>
                    ConfigOf(req'[i]) = ConfigOf(req[i]) /\ RejectedCalled(i)
              /\ (w = "rejected" /\ e.rejected = "value") =>
                    req'[i].config = HandlerConfig /\ ChainContinues(i)
              /\ (w = "rejected" /\ e.rejected = "undefined") =>
                    req'[i].config = NoConfig /\ ChainContinues(i)]_vars

\* C23 amended: the return value of the rejected handler becomes the config
\* when it is truthy; when it is falsy the config stays as it was; in both
\* cases the chain goes on with the next entry.
C23_RejectedValueOrLastConfig ==
    [][\A i \in ReqIds :
          (AtEntry(i) /\ Settles(i)) =>
              LET e == EntryOf(i)
                  w == req[i].wait IN
              /\ (w = "fulfilled" /\ e.fulfilled = "undefined") =>
                    ConfigOf(req'[i]) = ConfigOf(req[i]) /\ ChainContinues(i)
              /\ (w = "fulfilled" /\ Throws(e.fulfilled) /\ e.rejected # "none") =>
                    ConfigOf(req'[i]) = ConfigOf(req[i]) /\ RejectedCalled(i)
              /\ (w = "rejected" /\ e.rejected = "value") =>
                    req'[i].config = HandlerConfig /\ ChainContinues(i)
              /\ (w = "rejected" /\ e.rejected = "undefined") =>
                    ConfigOf(req'[i]) = ConfigOf(req[i]) /\ ChainContinues(i)]_vars

\* a request whose first interceptor threw and was recovered by its rejected
\* handler, whose second returned undefined and whose transfer started with
\* the config of the rejected handler
C23_Witness ==
    \E i \in ReqIds :
        /\ req[i].pc = "fetching"
        /\ Len(interceptors.request) = 2
        /\ Throws(interceptors.request[1].fulfilled)
        /\ interceptors.request[1].rejected = "value"
        /\ interceptors.request[2].fulfilled = "undefined"
        /\ req[i].config = HandlerConfig

(* ---- C24: a request interceptor that throws with no rejected handler ---- *)

\* the fulfilled handler of entry e throws and no rejected handler of e
\* returns from it
Unrecovered(e) == Throws(e.fulfilled) /\ e.rejected \in {"none", "rethrow"}

\* the first such entry of list l, 0 if none
FirstThrower(l) ==
    IF \E k \in 1..Len(l) : Unrecovered(l[k])
    THEN CHOOSE k \in 1..Len(l) :
             Unrecovered(l[k]) /\ \A j \in 1..(k - 1) : ~Unrecovered(l[j])
    ELSE 0

\* C24: when the fulfilled handler of a request interceptor throws and its
\* entry has no rejected handler, request() rejects with that error, no later
\* request interceptor runs, no transfer is attempted, pendingRequests,
\* loading, lastRequest and error stay as they were and the id leaves the
\* registry.
C24_RequestInterceptorFailFast ==
    \A i \in ReqIds :
        LET l == interceptors.request
            k == FirstThrower(l) IN
        (req[i].pc # "idle" /\ k > 0 /\ l[k].rejected = "none") =>
            /\ req[i].attempts = 0
            /\ req[i].pc # "fetching"
            /\ \A n \in 1..Len(req[i].ran) : req[i].ran[n].id <= l[k].id
            /\ pendingRequests = 0 /\ ~loading /\ lastRequest = <<>> /\ stateError = "null"
            /\ req[i].pc = "done" =>
                  /\ req[i].outcome = "rejected"
                  /\ req[i].result = ThrownBy(l[k].fulfilled)
                  /\ i \notin abortControllers

\* the second of two interceptors threw: the request was rejected with its
\* error after both handlers had been called
C24_Witness ==
    \E i \in ReqIds :
        /\ req[i].pc = "done"
        /\ req[i].outcome = "rejected"
        /\ Len(interceptors.request) = 2
        /\ FirstThrower(interceptors.request) = 2
        /\ interceptors.request[2].rejected = "none"
        /\ Len(req[i].ran) = 2

(* ---- C25: a response interceptor recovered by a handler that returns nothing ---- *)

\* C25: a request that received a response never resolves with undefined in
\* its place: a rejected handler's undefined return leaves the previous
\* response standing.
C25_NeverResolvesUndefined ==
    \A i \in ReqIds :
        (req[i].pc = "done" /\ req[i].outcome = "resolved") => req[i].result # Undefined

(* ---- C26: the walk over the error handlers ---- *)

\* the transfer of request r failed: a non-2xx answer or a network failure
\* was given to runResponseErrorInterceptors
TransferFailed(r) ==
    /\ r.failure # Undefined
    /\ r.failure.name = "HttpError" \/ r.failure = JsError("TypeError", "Failed to fetch")
    /\ r.hist # <<>>
    /\ ~Is2xx(r.hist[Len(r.hist)])

\* C26: when a transfer failed with error E, request() resolves with the
\* value of the first rejected handler, in registration order, that returns a
\* defined value; when none does, it rejects with E itself, whatever the
\* handlers threw.
C26_RejectsWithOriginalError ==
    \A i \in ReqIds :
        LET r == req[i]
            l == interceptors.response IN
        (r.pc = "done" /\ TransferFailed(r)) =>
            IF \E k \in 1..Len(l) : l[k].rejected = "value"
            THEN r.outcome = "resolved" /\ r.result = HandlerValue
            ELSE r.outcome = "rejected" /\ r.result = r.failure

(* ---- C27: the timeout and the attempts ---- *)

\* request r has a transfer attempt in progress
AttemptRunning(r) == r.pc \in {"fetching", "parsing"}

\* C27: the timeout pending over a transfer attempt was armed at the start of
\* that attempt, so the time of earlier attempts and retry delays does not
\* count against it.
C27_TimeoutPerAttempt ==
    \A i \in ReqIds :
        (AttemptRunning(req[i]) /\ req[i].timer) => req[i].armedAt = req[i].attempts

(* ---- C28: the rejection of a request whose signal aborted ---- *)

\* the phases of a request before its transfer has completed
BeforeTransferEnd == {"reqInterceptors", "fetching", "parsing", "retryWait"}

Timeout408 == HttpError("Request timeout", 408)

\* C28: a request whose signal aborted before its transfer completed, the
\* request interceptors included, is rejected with HttpError('Request
\* timeout', 408), whoever aborted it.
C28_AbortedRejectsWith408 ==
    \A i \in ReqIds :
        (Settled(i) /\ req[i].firedIn \in BeforeTransferEnd) =>
            (req[i].outcome = "rejected" /\ req[i].result = Timeout408)

\* C28 (amended): a request whose signal aborted before its transfer
\* completed, and which reached its transfer (no request interceptor threw
\* and the URL could be built), is rejected with HttpError('Request timeout',
\* 408), whoever aborted it and wherever it was then; once rejected, its
\* outcome does not change.
C28_AbortedTransferRejectsWith408 ==
    [][\A i \in ReqIds :
          /\ (req'[i].pc = "done" /\ req'[i].firedIn \in BeforeTransferEnd
                                  /\ req'[i].attempts >= 1) =>
                 (req'[i].outcome = "rejected" /\ req'[i].result = Timeout408)
          /\ Settled(i) =>
                 (req'[i].outcome = req[i].outcome /\ req'[i].result = req[i].result)]_vars

\* a request was aborted by a cancel call while in its request interceptors,
\* went on to call fetch, and was rejected with the error of a timeout
C28_Witness ==
    \E i \in ReqIds :
        /\ Settled(i) /\ req[i].attempts >= 1
        /\ req[i].firedIn = "reqInterceptors" /\ req[i].cancelledIn = "reqInterceptors"
        /\ interceptors.request # <<>>
        /\ req[i].result = Timeout408

(* ---- C29: a cancelled request does not resolve ---- *)

\* C29: a request that was in the registry when cancelRequest (with its id)
\* or cancelAll was called does not resolve afterwards, whatever phase it was
\* in: when it settles, it is rejected.
C29_CancelledNeverResolves ==
    \A i \in ReqIds :
        (Settled(i) /\ req[i].cancelledIn # "") => req[i].outcome = "rejected"

(* ---- C30: request() terminates within its retries ---- *)

\* C30: when every transfer attempt and every handler eventually returns or
\* throws, every request() call is eventually resolved or rejected, having
\* made at most retries + 1 transfer attempts and at most retries waits of
\* retryDelay; the retries left decrease by one on each retry and never go
\* below 0.
C30_TerminatesWithinRetries ==
    /\ [](\A i \in ReqIds :
             /\ req[i].attempts <= req[i].config.retries + 1
             /\ req[i].waits <= req[i].config.retries
             /\ req[i].retriesLeft >= 0)
    /\ [][\A i \in ReqIds :
             (req[i].attempts >= 1 /\ req'[i].attempts # req[i].attempts) =>
                 /\ req'[i].attempts = req[i].attempts + 1
                 /\ req'[i].retriesLeft = req[i].retriesLeft - 1
                 /\ req'[i].waits = req[i].attempts]_vars
    /\ \A i \in ReqIds : Issued(i) ~> Settled(i)

\* a request used every retry it had: retries + 1 attempts and retries waits
C30_Witness ==
    \E i \in ReqIds :
        /\ Settled(i)
        /\ req[i].config.retries = MaxRetries
        /\ req[i].attempts = MaxRetries + 1
        /\ req[i].waits = MaxRetries
        /\ req[i].retriesLeft = 0

(* ---- C31: what one request() call does to pendingRequests ---- *)

\* request i enters its transfer in this step (lines 486-494)
EntersTransfer(i) == req[i].pc = "reqInterceptors" /\ req'[i].pc = "fetching"

\* request i, having entered its transfer, settles in this step (lines 574-579)
LeavesTransfer(i) == InFlight(i) /\ req'[i].pc = "done"

\* C31: a request() call adds 1 to state.pendingRequests once, when it enters
\* its transfer, and takes 1 off once, when it settles, on every path; no
\* other step of the request touches the counter, and the timeout callback
\* is cleared when it settles, so a settled request does nothing more.
C31_PendingOncePerRequest ==
    [][\A i \in ReqIds :
          /\ EntersTransfer(i) => pendingRequests' = pendingRequests + 1
          /\ LeavesTransfer(i) => (pendingRequests' = pendingRequests - 1 /\ ~req'[i].timer)
          /\ (req'[i].pc # req[i].pc /\ ~EntersTransfer(i) /\ ~LeavesTransfer(i)) =>
                 pendingRequests' = pendingRequests
          /\ req'[i].pc = "fetching" /\ req[i].pc # "fetching" =>
                 (EntersTransfer(i) \/ req[i].pc = "retryWait")
          /\ Settled(i) => /\ Settled(i)' /\ ~req[i].timer /\ ~req'[i].timer
                           /\ req'[i].timedOut = req[i].timedOut
                           /\ req'[i].outcome = req[i].outcome]_vars

\* a request was retried, timed out in its second attempt and settled: the
\* counter is back to 0 and the timer is cleared
C31_Witness ==
    \E i \in ReqIds :
        /\ Settled(i) /\ req[i].attempts = 2 /\ req[i].firedIn = "fetching"
        /\ req[i].cancelledIn = ""
        /\ ~req[i].timer
        /\ pendingRequests = 0

(* ---- C32: the verb shortcuts ---- *)

\* the method names of the shortcuts, as the claim lists them
VerbMethod ==
    [get |-> "GET", post |-> "POST", put |-> "PUT", patch |-> "PATCH",
     delete |-> "DELETE", head |-> "HEAD", options |-> "OPTIONS"]

\* C32: a verb shortcut calls request() with its own method whatever
\* options.method is; post, put and patch pass their positional body whatever
\* options.body is; and fetch is given no body when its method is GET or HEAD.
C32_VerbShortcuts ==
    probe.op = "verb" =>
        LET r == req[probe.id] IN
        /\ r.issued.config.method = VerbMethod[probe.verb]
        /\ probe.verb \in {"post", "put", "patch"} =>
               r.issued.config.body = (IF probe.body = "undefined" THEN "emptyObject"
                                       ELSE probe.body)
        /\ (r.pc = "fetching" /\ r.fetch.method \in {"GET", "HEAD"}) =>
               r.fetch.body = Missing

\* post(url, object, { method: 'GET', body: 'text' }) sent a POST with the
\* object, serialized
C32_Witness ==
    /\ probe.op = "verb"
    /\ probe.verb = "post" /\ probe.body = "object"
    /\ probe.options.method = "GET" /\ probe.options.body = "text"
    /\ req[probe.id].pc = "fetching"
    /\ req[probe.id].fetch.method = "POST"
    /\ req[probe.id].fetch.body = "{\"k\":1}"

(* ---- C33: a cancelled download ---- *)

\* C33: a download whose signal aborted while it waited for the response or
\* for a chunk and whose catch block has run is rejected, once, with HttpError('Download cancelled', 0); its
\* tracker has status 'error', its id is out of the registry, and it made one
\* transfer attempt.
C33_CancelledDownload ==
    (xfer.kind = "download" /\ xfer.aborted # "" /\ xfer.pc = "ended") =>
        /\ xfer.promise = "rejected" /\ xfer.settles = 1
        /\ xfer.value = HttpError("Download cancelled", 0)
        /\ tracker.status = "error"
        /\ xfer.id \notin abortControllers
        /\ xfer.sends = 1

(* ---- C34: removing an interceptor under a running chain ---- *)

\* the ids of the request interceptors whose handler request r called, in order
RanIds(r) == [k \in 1..Len(r.ran) |-> r.ran[k].id]

\* C34: removing an interceptor while a request runs its request chain does
\* not make the chain skip or repeat another one: every interceptor that is
\* still registered when the chain has ended (so was registered when it
\* started, and was not removed) ran exactly once, in registration order.
C34_RemovalSkipsNothing ==
    \A i \in ReqIds :
        LET r == req[i]
            l == interceptors.request
            ids == RanIds(r) IN
        r.pc \notin {"idle", "reqInterceptors"} =>
            /\ \A k \in 1..Len(l) :
                   Cardinality({j \in 1..Len(ids) : ids[j] = l[k].id}) = 1
            /\ \A j1, j2 \in 1..Len(ids) : j1 < j2 => ids[j1] < ids[j2]

(* ---- C35: an aborted transfer bypasses the response interceptors ---- *)

\* the transfer of request i is under an aborted signal
TransferAborted(i) == req[i].pc \in {"fetching", "parsing"} /\ req[i].signal

\* C35: once the signal of a request has aborted its transfer, the request
\* goes from the transfer straight to its rejection with the 408: it enters
\* neither the response interceptors nor the error interceptors, so no
\* handler can recover or replace the rejection.
C35_AbortBypassesInterceptors ==
    [][\A i \in ReqIds :
          (TransferAborted(i) /\ req'[i].pc # req[i].pc) =>
              /\ req'[i].pc = "done"
              /\ req'[i].outcome = "rejected" /\ req'[i].result = Timeout408
              /\ req'[i].idx = req[i].idx
              /\ req'[i].recovered = req[i].recovered
              /\ req'[i].threw = req[i].threw]_vars

\* a request whose body read was aborted was rejected with the 408 although
\* a response interceptor with a recovering rejected handler was registered
C35_Witness ==
    \E i \in ReqIds :
        /\ Settled(i) /\ req[i].firedIn = "parsing"
        /\ req[i].result = Timeout408
        /\ ~req[i].recovered
        /\ \E k \in 1..Len(interceptors.response) :
               interceptors.response[k].rejected = "value"

(* ---- C36: what upload() and download() change on the client ---- *)

\* the transport of the transfer has not yet reached a terminal event
TransportOpen(x) == x.pc \in {"sending", "fetching", "reading"}

\* the step is the upload() or download() call
TransferStarts == xfer.pc = "idle" /\ xfer'.pc # "idle"

\* the step is the terminal event of the transport
TransportEnds == TransportOpen(xfer) /\ ~TransportOpen(xfer')

\* no code of upload() or download() runs in the step: the transfer is where
\* it was, its signal apart
TransferAtRest ==
    /\ [xfer' EXCEPT !.aborted = xfer.aborted] = xfer
    /\ tracker' = tracker

C37_OnceAtMostOnce ==
    probe.op = "bus" =>
        /\ \A s \in 1..Len(probe.sets) : \A k \in 1..Len(probe.sets[s]) :
               probe.sets[s][k].once => probe.sets[s][k].calls <= 1
        /\ (probe.stack = <<>> /\ probe.cur # 0) =>
               \A k \in 1..Len(probe.sets[probe.cur]) :
                   LET e == probe.sets[probe.cur][k] IN
                   (e.once /\ e.present) => e.calls = 0

====
